---- MODULE Spec2Model ----
(***************************************************************************)
(* Training job controller and model cache of the Data-Annotator backend   *)
(* (backend/yolo_model.py, backend/few_shot_model.py, the reset handler of *)
(* backend/app.py).  One state machine per model type; the module-level    *)
(* globals of the two model modules are functions of the model type.       *)
(***************************************************************************)
EXTENDS Integers, Sequences, FiniteSets, TLC

\* ---------------------------------------------------------------- bounds
MaxOps == 2        \* requests in one behaviour: accepted start_training
                   \* calls, _load_model_if_needed calls, reset_annotator
NumEpochs == 2     \* epochs of one fit (the code runs 20)
MaxLoss == 0       \* finite epoch losses are 0..MaxLoss
MaxBatch == 3      \* filenames in one predict_batch call
MaxDim == 3        \* width and height of an image, in pixels
MaxPreds == 2      \* predictions of one model for one image
NumLabels == 3     \* labels of the verified annotations in the database
MaxUpdates == 3    \* calls of update_class_mapping in one behaviour
MaxCalls == 2      \* prepare_data calls and augment_images requests
MaxAugmentations == 1  \* num_augmentations of a request

\* ------------------------------------------------------ program constants
patience == 5

ModelTypes == {"yolo", "few_shot"}
Jobs == 1..MaxOps

YOLO_MODEL_PATH == "model/last.pt"
FEWSHOT_MODEL_PATH == "model/few_shot_model.pt"
TRAIN_BEST == "model/training/weights/best.pt"
TRAIN_LAST == "model/training/weights/last.pt"
MODEL_BEST == "model/best.pt"
BASE_WEIGHTS == "yolov8n.pt"

MODEL_PATH(m) == IF m = "yolo" THEN YOLO_MODEL_PATH ELSE FEWSHOT_MODEL_PATH

Paths ==
  {YOLO_MODEL_PATH, FEWSHOT_MODEL_PATH, TRAIN_BEST, TRAIN_LAST, MODEL_BEST,
   BASE_WEIGHTS}

\* ------------------------------------------------------------ file system
\* A file is absent, or holds the weights written by job `ver` (0: a file
\* left by an earlier run of the server, -1: the pretrained base weights).
\* `partial` is a file that is open for writing: truncated, not yet
\* complete.  `big` is os.path.getsize(path) >= 10000.
BaseVer == -1
Absent == [exists |-> FALSE, ver |-> 0, partial |-> FALSE, big |-> FALSE]
Artifact(v) == [exists |-> TRUE, ver |-> v, partial |-> FALSE, big |-> TRUE]
Stub(v) == [exists |-> TRUE, ver |-> v, partial |-> FALSE, big |-> FALSE]
Truncated(v) == [exists |-> TRUE, ver |-> v, partial |-> TRUE, big |-> FALSE]

AllAbsent == [p \in Paths |-> Absent]

\* Disk layouts the server can find at start-up.
StartupDisks ==
  { AllAbsent,
    [AllAbsent EXCEPT ![YOLO_MODEL_PATH] = Artifact(0),
                      ![TRAIN_BEST] = Artifact(0),
                      ![TRAIN_LAST] = Artifact(0),
                      ![FEWSHOT_MODEL_PATH] = Artifact(0)],
    [AllAbsent EXCEPT ![YOLO_MODEL_PATH] = Artifact(0),
                      ![MODEL_BEST] = Stub(0),
                      ![BASE_WEIGHTS] = Artifact(BaseVer)] }

VARIABLES
  TRAINING_IN_PROGRESS,   \* [ModelTypes -> BOOLEAN]
  TRAINING_PROGRESS,      \* [ModelTypes -> 0..NumEpochs], in units of 1/NumEpochs
  MODEL_AVAILABLE,        \* [ModelTypes -> BOOLEAN]
  MODEL_READY,            \* [ModelTypes -> BOOLEAN]
  disk,                   \* [Paths -> file]
  cache,                  \* [ModelTypes -> cached model handle and its path]
  worker,                 \* [Jobs -> training thread]
  ret,                    \* return value of the last start_training call
  loader,                 \* the _load_model_if_needed call of a prediction request
  rpc,                    \* position of the reset_annotator request
  nops,                   \* number of requests so far
  produced,               \* [ModelTypes -> the job whose success set is_ready
                          \*  and that wrote its artifact, NoModel if none]
  response                \* how the last status check of the HTTP layer ended

\* Batch inference (predict_batch of both model modules)
VARIABLES
  uploads,                \* the filenames f for which uploads/f exists
  corrupt,                \* those of them that PIL cannot open
  outputs,                \* [Names -> what the network computes for the image]
  request,                \* the predict_batch call and what it met
  batch_predictions       \* the mapping it returned

\* Geometry normalization of one detector box
VARIABLES
  box,                    \* raw corner box and the size of its image
  prediction              \* the normalized box

\* Uncertainty estimate of one image (calculate_uncertainty_score)
VARIABLES
  yolo_preds,             \* predictions of the detector
  few_shot_preds,         \* predictions of the few-shot classifier
  uncertainty             \* the score returned, <<>> before the call

\* Class registry (ensure_class_consistency.py)
VARIABLES
  classes_json,           \* the mapping in model/classes.json, label -> ID
  updates,                \* the label sets of the calls so far
  dataset_yaml            \* datasets/dataset.yaml: the lines nc and names

\* Dataset directories (YOLOModel.prepare_data and the /augment_images route)
VARIABLES
  annotations,            \* [Images -> the verified label of the image's row]
  datasets,               \* the files of datasets/train/images and datasets/val/images
  np_random,              \* state of numpy's global generator
  prepare,                \* the prepare_data call of the running job
  partition,              \* what the last prepare_data call placed
  augment,                \* the augment_images request
  ncalls,                 \* number of prepare_data calls and augment_images requests
  fewshot                 \* the few-shot training job and its FewShotDataset

trainVars ==
  <<TRAINING_IN_PROGRESS, TRAINING_PROGRESS, MODEL_AVAILABLE, MODEL_READY,
    disk, cache, worker, ret, loader, rpc, nops, produced, response>>

predictVars == <<uploads, corrupt, outputs, request, batch_predictions>>

boxVars == <<box, prediction>>

scoreVars == <<yolo_preds, few_shot_preds, uncertainty>>

registryVars == <<classes_json, updates, dataset_yaml>>

dataVars == <<annotations, datasets, np_random, prepare, partition, augment, ncalls,
              fewshot>>

\* the state of the components that take no part in training and loading
sideVars == <<predictVars, boxVars, scoreVars, registryVars, dataVars>>

vars == <<trainVars, sideVars>>

status == <<TRAINING_IN_PROGRESS, TRAINING_PROGRESS, MODEL_AVAILABLE, MODEL_READY>>

\* --------------------------------------------------------------- helpers
exists(p) == disk[p].exists

Inf == MaxLoss + 1
NaN == -1
Losses == (0..MaxLoss) \cup {NaN}
\* avg_loss < best_loss on floats: any comparison with NaN is false
LossLess(a, b) == a # NaN /\ b # NaN /\ a < b

\* get_model_status(): the snapshot returned to the caller
get_model_status(m) ==
  [training_in_progress |-> TRAINING_IN_PROGRESS[m],
   progress |-> TRAINING_PROGRESS[m],
   is_available |->
     IF m = "yolo" THEN exists(YOLO_MODEL_PATH) \/ exists(TRAIN_LAST)
                   ELSE MODEL_AVAILABLE[m],
   is_ready |-> MODEL_READY[m]]

\* The candidate list of YOLOModel._load_model_if_needed
model_paths(use_latest) ==
  IF use_latest
    THEN <<TRAIN_BEST, MODEL_BEST, TRAIN_LAST, YOLO_MODEL_PATH, BASE_WEIGHTS>>
    ELSE <<MODEL_BEST, YOLO_MODEL_PATH, TRAIN_BEST, TRAIN_LAST, BASE_WEIGHTS>>

\* a candidate test without the size check
valid_path_any_size(p) == disk[p].exists

\* os.path.exists(path) and os.path.getsize(path) >= 10000
valid_path(p) == disk[p].exists /\ disk[p].big

\* first path of the list that exists and has at least 10000 bytes, or "none"
current_model_path(use_latest) ==
  LET ps == model_paths(use_latest)
      ok == {i \in 1..Len(ps) : valid_path(ps[i])}
  IN IF ok = {} THEN "none"
     ELSE ps[CHOOSE i \in ok : \A k \in ok : i <= k]

\* The weight file the model cache of type m resolves, "none" if none
resolved_path(m) ==
  IF m = "yolo" THEN current_model_path(TRUE)
  ELSE IF exists(FEWSHOT_MODEL_PATH) THEN FEWSHOT_MODEL_PATH ELSE "none"

resolved_artifact(m) ==
  IF resolved_path(m) = "none" THEN Absent ELSE disk[resolved_path(m)]

\* ---------------------------------------------------------------- workers
NoPre == [is_available |-> FALSE, is_ready |-> FALSE, artifact |-> Absent]
NoWorker ==
  [type |-> "none", pc |-> "none", epoch |-> 0, best_loss |-> Inf,
   patience_counter |-> 0, copied |-> FALSE, undisturbed |-> TRUE,
   pre |-> NoPre]

\* a thread that has ended
Ended(w) == [NoWorker EXCEPT !.type = w.type, !.pc = "done"]

\* number of training threads started so far
njobs == Cardinality({j \in Jobs : worker[j].type # "none"})

NoModel == -2
NoCache == [model |-> NoModel, path |-> "none"]
\* `since` is the job whose model the call is due: the last job of the type
\* that completed with its artifact written before the call was made
IdleLoader ==
  [type |-> "none", pc |-> "idle", path |-> "none", ret |-> "none",
   since |-> NoModel, reset |-> FALSE]

\* ------------------------------------------------- components at rest
\* No training, no load and no reset request ever made, nothing on disk
TrainIdle ==
  /\ disk = AllAbsent
  /\ TRAINING_IN_PROGRESS = [m \in ModelTypes |-> FALSE]
  /\ TRAINING_PROGRESS = [m \in ModelTypes |-> 0]
  /\ MODEL_AVAILABLE = [m \in ModelTypes |-> FALSE]
  /\ MODEL_READY = [m \in ModelTypes |-> FALSE]
  /\ cache = [m \in ModelTypes |-> NoCache]
  /\ worker = [j \in Jobs |-> NoWorker]
  /\ ret = "none"
  /\ loader = IdleLoader
  /\ rpc = "idle"
  /\ nops = 0
  /\ produced = [m \in ModelTypes |-> NoModel]
  /\ response = "none"

\* no predict_batch call made, no image uploaded
PredictIdle ==
  /\ uploads = {}
  /\ corrupt = {}
  /\ outputs = <<>>
  /\ request = <<>>
  /\ batch_predictions = <<>>

\* no detector box under conversion
BoxIdle ==
  /\ box = <<>>
  /\ prediction = <<>>

\* no image under estimation
ScoreIdle ==
  /\ yolo_preds = <<>>
  /\ few_shot_preds = <<>>
  /\ uncertainty = <<>>

\* no datasets/dataset.yaml; a manifest that is written names a class
NoManifest == [nc |-> 0, names |-> <<>>]

\* no model/classes.json, no update, no manifest
RegistryIdle ==
  /\ classes_json = <<>>
  /\ updates = <<>>
  /\ dataset_yaml = NoManifest

\* empty dataset directories, no prepare_data call and no augmentation made
DataIdle ==
  /\ annotations = <<>>
  /\ datasets = <<>>
  /\ np_random = 0
  /\ prepare = <<>>
  /\ partition = <<>>
  /\ augment = <<>>
  /\ ncalls = 0
  /\ fewshot = <<>>

SideIdle == PredictIdle /\ BoxIdle /\ ScoreIdle /\ RegistryIdle /\ DataIdle

Init ==
  /\ SideIdle
  /\ disk \in StartupDisks
  /\ TRAINING_IN_PROGRESS = [m \in ModelTypes |-> FALSE]
  /\ TRAINING_PROGRESS = [m \in ModelTypes |-> 0]
  /\ MODEL_AVAILABLE =
       [m \in ModelTypes |->
          IF m = "yolo" THEN exists(YOLO_MODEL_PATH) \/ exists(TRAIN_LAST)
                        ELSE exists(FEWSHOT_MODEL_PATH)]
  /\ MODEL_READY = MODEL_AVAILABLE
  /\ cache = [m \in ModelTypes |-> NoCache]
  /\ worker = [j \in Jobs |-> NoWorker]
  /\ ret = "none"
  /\ loader = IdleLoader
  /\ rpc = "idle"
  /\ nops = 0
  /\ produced = [m \in ModelTypes |-> NoModel]
  /\ response = "none"

\* start_training that leaves it to the thread to set TRAINING_IN_PROGRESS
start_training_late_flag(m) ==
  /\ UNCHANGED <<TRAINING_PROGRESS, MODEL_AVAILABLE, disk, cache, loader, rpc>>
  /\ IF TRAINING_IN_PROGRESS[m]
       THEN /\ ret' = "False"
            /\ UNCHANGED <<TRAINING_IN_PROGRESS, MODEL_READY, worker, nops,
                           produced>>
       ELSE /\ nops < MaxOps
            /\ produced' = [produced EXCEPT ![m] = NoModel]
            /\ MODEL_READY' = [MODEL_READY EXCEPT ![m] = FALSE]
            /\ UNCHANGED TRAINING_IN_PROGRESS
            /\ nops' = nops + 1
            /\ worker' =
                 [worker EXCEPT ![njobs + 1] =
                    [NoWorker EXCEPT
                       !.type = m, !.pc = "init",
                       !.pre = [is_available |-> get_model_status(m).is_available,
                                is_ready |-> MODEL_READY[m],
                                artifact |-> resolved_artifact(m)]]]
            /\ ret' = "True"
  /\ UNCHANGED sideVars
  /\ UNCHANGED response

\* start_training without the test of TRAINING_IN_PROGRESS
start_training_unguarded(m) ==
  /\ UNCHANGED <<TRAINING_PROGRESS, MODEL_AVAILABLE, disk, cache, loader, rpc>>
  /\ nops < MaxOps
  /\ produced' = [produced EXCEPT ![m] = NoModel]
  /\ MODEL_READY' = [MODEL_READY EXCEPT ![m] = FALSE]
  /\ TRAINING_IN_PROGRESS' = [TRAINING_IN_PROGRESS EXCEPT ![m] = TRUE]
  /\ nops' = nops + 1
  /\ worker' =
       [worker EXCEPT ![njobs + 1] =
          [NoWorker EXCEPT
             !.type = m, !.pc = "init",
             !.pre = [is_available |-> get_model_status(m).is_available,
                      is_ready |-> MODEL_READY[m],
                      artifact |-> resolved_artifact(m)]]]
  /\ ret' = "True"
  /\ UNCHANGED sideVars
  /\ UNCHANGED response

\* start_training(images_data): the block under LOCK and the thread start.
\* A rejected call changes nothing but its return value.
start_training(m) ==
  /\ UNCHANGED <<TRAINING_PROGRESS, MODEL_AVAILABLE, disk, cache, loader, rpc>>
  /\ IF TRAINING_IN_PROGRESS[m]
       THEN /\ ret' = "False"
            /\ UNCHANGED <<TRAINING_IN_PROGRESS, MODEL_READY, worker, nops,
                           produced>>
       ELSE /\ nops < MaxOps
            /\ produced' = [produced EXCEPT ![m] = NoModel]
            /\ MODEL_READY' = [MODEL_READY EXCEPT ![m] = FALSE]
            /\ TRAINING_IN_PROGRESS' = [TRAINING_IN_PROGRESS EXCEPT ![m] = TRUE]
            /\ nops' = nops + 1
            /\ worker' =
                 [worker EXCEPT ![njobs + 1] =
                    [NoWorker EXCEPT
                       !.type = m, !.pc = "init",
                       !.pre = [is_available |-> get_model_status(m).is_available,
                                is_ready |-> MODEL_READY[m],
                                artifact |-> resolved_artifact(m)]]]
            /\ ret' = "True"
  /\ UNCHANGED sideVars
  /\ UNCHANGED response

\* ------------------------------------------------------ train_model_thread
\* The first block under LOCK of train_model_thread (both model types)
train_begin(j) ==
  LET m == worker[j].type IN
  /\ worker[j].pc = "init"
  /\ TRAINING_IN_PROGRESS' = [TRAINING_IN_PROGRESS EXCEPT ![m] = TRUE]
  /\ TRAINING_PROGRESS' = [TRAINING_PROGRESS EXCEPT ![m] = 0]
  /\ MODEL_READY' = [MODEL_READY EXCEPT ![m] = FALSE]
  /\ produced' = [produced EXCEPT ![m] = NoModel]
  /\ worker' = [worker EXCEPT ![j].pc = "prepare"]
  /\ UNCHANGED <<MODEL_AVAILABLE, disk, cache, ret, loader, rpc, nops>>
  /\ UNCHANGED sideVars
  /\ UNCHANGED response

\* YOLOModel.prepare_data calls ensure_class_consistency.main(), which calls
\* sys.exit(1) when the database holds no verified label.  SystemExit is not
\* an Exception: neither prepare_data nor train_model_thread catches it, the
\* thread ends and no block under LOCK runs.
prepare_exit(j) ==
  /\ worker[j].pc = "prepare"
  /\ worker[j].type = "yolo"
  /\ worker' = [worker EXCEPT ![j] = Ended(@)]
  /\ UNCHANGED <<status, disk, cache, ret, loader, rpc, nops>>
  /\ UNCHANGED produced
  /\ UNCHANGED sideVars
  /\ UNCHANGED response

\* YOLOModel.prepare_data returns False: no image with verified annotations,
\* no class, or no image written to one of the two partitions.
prepare_failed(j) ==
  LET m == worker[j].type IN
  /\ worker[j].pc = "prepare"
  /\ m = "yolo"
  /\ TRAINING_IN_PROGRESS' = [TRAINING_IN_PROGRESS EXCEPT ![m] = FALSE]
  /\ worker' = [worker EXCEPT ![j] = Ended(@)]
  /\ UNCHANGED <<TRAINING_PROGRESS, MODEL_AVAILABLE, MODEL_READY, disk, cache,
                 ret, loader, rpc, nops>>
  /\ UNCHANGED produced
  /\ UNCHANGED sideVars
  /\ UNCHANGED response

\* prepare_data succeeds and the model to fit is created: YOLO(MODEL_PATH) if
\* it exists, else YOLO('yolov8n.pt'), which fetches the base weights.
prepare_ok(j) ==
  LET m == worker[j].type IN
  /\ worker[j].pc = "prepare"
  /\ worker' = [worker EXCEPT ![j].pc = "fit"]
  /\ disk' = IF m = "yolo" /\ ~exists(YOLO_MODEL_PATH) /\ ~exists(BASE_WEIGHTS)
               THEN [disk EXCEPT ![BASE_WEIGHTS] = Artifact(BaseVer)]
               ELSE disk
  /\ UNCHANGED <<status, cache, ret, loader, rpc, nops>>
  /\ UNCHANGED produced
  /\ UNCHANGED sideVars
  /\ UNCHANGED response

\* The end of a write: the file is complete.  A file that was removed while
\* it was open stays removed.
Close(f) == IF f.exists /\ f.partial THEN Artifact(f.ver) ELSE f

\* after an epoch: next epoch, or leave the loop
AfterEpoch(w, stop) ==
  IF stop \/ w.epoch + 1 >= NumEpochs
    THEN [w EXCEPT !.epoch = w.epoch + 1, !.pc = "post"]
    ELSE [w EXCEPT !.epoch = w.epoch + 1, !.pc = "fit"]

\* One epoch of the few-shot training loop: the progress update under LOCK,
\* then the early stopping check, which opens MODEL_PATH for torch.save when
\* the loss improved.
fewshot_epoch(j) ==
  LET w == worker[j] IN
  /\ w.pc = "fit"
  /\ w.type = "few_shot"
  /\ \E avg_loss \in Losses :
       /\ TRAINING_PROGRESS' =
            [TRAINING_PROGRESS EXCEPT !["few_shot"] = w.epoch + 1]
       /\ IF LossLess(avg_loss, w.best_loss)
            THEN /\ worker' = [worker EXCEPT ![j].best_loss = avg_loss,
                                             ![j].patience_counter = 0,
                                             ![j].pc = "saving"]
                 /\ disk' = [disk EXCEPT ![FEWSHOT_MODEL_PATH] = Truncated(j)]
            ELSE /\ worker' =
                      [worker EXCEPT ![j] =
                         AfterEpoch([w EXCEPT !.patience_counter = @ + 1],
                                    w.patience_counter + 1 >= patience)]
                 /\ UNCHANGED disk
  /\ UNCHANGED <<TRAINING_IN_PROGRESS, MODEL_AVAILABLE, MODEL_READY, cache,
                 ret, loader, rpc, nops>>
  /\ UNCHANGED produced
  /\ UNCHANGED sideVars
  /\ UNCHANGED response

\* torch.save of the epoch completes
fewshot_saved(j) ==
  LET w == worker[j] IN
  /\ w.pc = "saving"
  /\ w.type = "few_shot"
  /\ disk' = [disk EXCEPT ![FEWSHOT_MODEL_PATH] = Close(@)]
  /\ worker' = [worker EXCEPT ![j] = AfterEpoch([w EXCEPT !.copied = TRUE], FALSE)]
  /\ UNCHANGED <<status, cache, ret, loader, rpc, nops>>
  /\ UNCHANGED produced
  /\ UNCHANGED sideVars
  /\ UNCHANGED response

\* One epoch of model.train(project='model', name='training'): the
\* on_train_epoch_end callback sets the progress under LOCK, then the trainer
\* opens weights/last.pt, and weights/best.pt when the epoch is the best so
\* far (the first epoch always is).
yolo_epoch(j) ==
  LET w == worker[j] IN
  /\ w.pc = "fit"
  /\ w.type = "yolo"
  /\ TRAINING_PROGRESS' = [TRAINING_PROGRESS EXCEPT !["yolo"] = w.epoch + 1]
  /\ \E best \in BOOLEAN :
       /\ w.epoch = 0 => best
       /\ disk' = [disk EXCEPT
                     ![TRAIN_LAST] = Truncated(j),
                     ![TRAIN_BEST] = IF best THEN Truncated(j) ELSE @]
  /\ worker' = [worker EXCEPT ![j].pc = "saving"]
  /\ UNCHANGED <<TRAINING_IN_PROGRESS, MODEL_AVAILABLE, MODEL_READY, cache,
                 ret, loader, rpc, nops>>
  /\ UNCHANGED produced
  /\ UNCHANGED sideVars
  /\ UNCHANGED response

\* the trainer closes the weight files of the epoch; training goes on, or
\* ends (last epoch, or the trainer's own early stopping)
yolo_saved(j) ==
  LET w == worker[j] IN
  /\ w.pc = "saving"
  /\ w.type = "yolo"
  /\ disk' = [disk EXCEPT ![TRAIN_LAST] = Close(@), ![TRAIN_BEST] = Close(@)]
  /\ \E stop \in BOOLEAN : worker' = [worker EXCEPT ![j] = AfterEpoch(w, stop)]
  /\ UNCHANGED <<status, cache, ret, loader, rpc, nops>>
  /\ UNCHANGED produced
  /\ UNCHANGED sideVars
  /\ UNCHANGED response

\* After the fit.  YOLO: shutil.copy2(best_model, MODEL_PATH) if best_model
\* exists, else only a warning.  Few-shot: torch.save if MODEL_PATH does not
\* exist.  The write opens the canonical path here and ends in save_end.
save_begin(j) ==
  LET w == worker[j]
      m == w.type
      best_model == TRAIN_BEST
  IN
  /\ w.pc = "post"
  /\ IF m = "yolo"
       THEN IF exists(best_model)
              THEN /\ disk' = [disk EXCEPT
                                 ![YOLO_MODEL_PATH] = Truncated(disk[best_model].ver)]
                   /\ worker' = [worker EXCEPT ![j].pc = "copying"]
              ELSE /\ worker' = [worker EXCEPT ![j].pc = "final"]
                   /\ UNCHANGED disk
       ELSE IF ~exists(FEWSHOT_MODEL_PATH)
              THEN /\ disk' = [disk EXCEPT ![FEWSHOT_MODEL_PATH] = Truncated(j)]
                   /\ worker' = [worker EXCEPT ![j].pc = "copying"]
              ELSE /\ worker' = [worker EXCEPT ![j].pc = "final"]
                   /\ UNCHANGED disk
  /\ UNCHANGED <<status, cache, ret, loader, rpc, nops>>
  /\ UNCHANGED produced
  /\ UNCHANGED sideVars
  /\ UNCHANGED response

save_end(j) ==
  LET w == worker[j]
      m == w.type
  IN
  /\ w.pc = "copying"
  /\ disk' = [disk EXCEPT ![MODEL_PATH(m)] = Close(@)]
  /\ worker' = [worker EXCEPT ![j].pc = "final", ![j].copied = TRUE]
  /\ UNCHANGED <<status, cache, ret, loader, rpc, nops>>
  /\ UNCHANGED produced
  /\ UNCHANGED sideVars
  /\ UNCHANGED response

\* The block under LOCK that ends a successful job.  The few-shot thread sets
\* MODEL_READY in the same block, the YOLO thread in a second block.
train_finish(j) ==
  LET w == worker[j]
      m == w.type
  IN
  /\ w.pc = "final"
  /\ TRAINING_IN_PROGRESS' = [TRAINING_IN_PROGRESS EXCEPT ![m] = FALSE]
  /\ TRAINING_PROGRESS' = [TRAINING_PROGRESS EXCEPT ![m] = NumEpochs]
  /\ IF m = "yolo"
       THEN /\ MODEL_AVAILABLE' =
                 [MODEL_AVAILABLE EXCEPT
                    ![m] = exists(YOLO_MODEL_PATH) \/ exists(TRAIN_BEST)]
            /\ UNCHANGED <<MODEL_READY, produced>>
            /\ worker' = [worker EXCEPT ![j].pc = "final2"]
       ELSE /\ MODEL_AVAILABLE' = [MODEL_AVAILABLE EXCEPT ![m] = TRUE]
            /\ MODEL_READY' = [MODEL_READY EXCEPT ![m] = TRUE]
            /\ produced' = [produced EXCEPT
                              ![m] = IF w.copied THEN j ELSE NoModel]
            /\ worker' = [worker EXCEPT ![j] = Ended(@)]
  /\ UNCHANGED <<disk, cache, ret, loader, rpc, nops>>
  /\ UNCHANGED sideVars
  /\ UNCHANGED response

\* YOLO: the second block under LOCK, "Set model as ready for predictions"
train_ready(j) ==
  LET w == worker[j] IN
  /\ w.pc = "final2"
  /\ MODEL_READY' = [MODEL_READY EXCEPT ![w.type] = TRUE]
  /\ produced' = [produced EXCEPT ![w.type] = IF w.copied THEN j ELSE NoModel]
  /\ worker' = [worker EXCEPT ![j] = Ended(@)]
  /\ UNCHANGED <<TRAINING_IN_PROGRESS, TRAINING_PROGRESS, MODEL_AVAILABLE, disk,
                 cache, ret, loader, rpc, nops>>
  /\ UNCHANGED sideVars
  /\ UNCHANGED response

\* an exception handler that also puts the progress back to 0.0
train_exception_clears_progress(j) ==
  LET w == worker[j]
      m == w.type
  IN
  /\ w.pc \in {"prepare", "fit", "saving", "post", "copying"}
  /\ w.pc = "post" =>
       IF m = "yolo" THEN exists(TRAIN_BEST) ELSE ~exists(FEWSHOT_MODEL_PATH)
  /\ TRAINING_IN_PROGRESS' = [TRAINING_IN_PROGRESS EXCEPT ![m] = FALSE]
  /\ TRAINING_PROGRESS' = [TRAINING_PROGRESS EXCEPT ![m] = 0]
  /\ worker' = [worker EXCEPT ![j] = Ended(@)]
  /\ UNCHANGED <<MODEL_AVAILABLE, MODEL_READY, disk, cache, ret, loader, rpc,
                 nops>>
  /\ UNCHANGED produced
  /\ UNCHANGED sideVars
  /\ UNCHANGED response

\* except Exception: a statement between the first block under LOCK and the
\* last one raises (after the fit: opening the canonical path for the write);
\* a file that was open for writing stays as it is.
train_exception(j) ==
  LET w == worker[j]
      m == w.type
  IN
  /\ w.pc \in {"prepare", "fit", "saving", "post", "copying"}
  /\ w.pc = "post" =>
       IF m = "yolo" THEN exists(TRAIN_BEST) ELSE ~exists(FEWSHOT_MODEL_PATH)
  /\ TRAINING_IN_PROGRESS' = [TRAINING_IN_PROGRESS EXCEPT ![m] = FALSE]
  /\ worker' = [worker EXCEPT ![j] = Ended(@)]
  /\ UNCHANGED <<TRAINING_PROGRESS, MODEL_AVAILABLE, MODEL_READY, disk, cache,
                 ret, loader, rpc, nops>>
  /\ UNCHANGED produced
  /\ UNCHANGED sideVars
  /\ UNCHANGED response

\* ---------------------------------------------------- _load_model_if_needed
\* The status check under LOCK.  The few-shot check also tests MODEL_AVAILABLE.
\* a status check that tests TRAINING_IN_PROGRESS only
not_ready_training_only(m) ==
  TRAINING_IN_PROGRESS[m]

not_ready(m) ==
  \/ TRAINING_IN_PROGRESS[m]
  \/ ~MODEL_READY[m]
  \/ m = "few_shot" /\ ~MODEL_AVAILABLE[m]

\* Callers pass use_latest=True, or leave it at its default True.
load_check(m) ==
  /\ loader.pc = "idle"
  /\ nops < MaxOps
  /\ nops' = nops + 1
  /\ loader' = IF not_ready(m)
                 THEN [IdleLoader EXCEPT !.type = m, !.ret = "NotReady"]
                 ELSE [IdleLoader EXCEPT !.type = m, !.pc = "resolve",
                                         !.ret = "pending",
                                         !.since = produced[m]]
  /\ UNCHANGED <<status, disk, cache, worker, ret, rpc>>
  /\ UNCHANGED produced
  /\ UNCHANGED sideVars
  /\ UNCHANGED response

\* After the check, outside LOCK: find the weight file; return the cached
\* handle, or start to read the file: YOLO(current_model_path),
\* torch.load(MODEL_PATH).
load_resolve ==
  LET m == loader.type
      path == IF m = "yolo" THEN current_model_path(TRUE)
                            ELSE FEWSHOT_MODEL_PATH
      cached == IF m = "yolo"
                  THEN cache[m].model # NoModel /\ cache[m].path = path
                  ELSE cache[m].model # NoModel
  IN
  /\ loader.pc = "resolve"
  /\ loader' =
       IF path = "none" THEN [IdleLoader EXCEPT !.type = m, !.ret = "NotReady"]
       ELSE IF cached THEN [IdleLoader EXCEPT !.type = m, !.ret = "model"]
       ELSE [loader EXCEPT !.pc = "reading", !.path = path]
  /\ UNCHANGED <<status, disk, cache, worker, ret, rpc, nops>>
  /\ UNCHANGED produced
  /\ UNCHANGED sideVars
  /\ UNCHANGED response

\* The read ends.  A file that is missing or incomplete makes the load raise;
\* the YOLO cache then drops its handle, the few-shot cache keeps what it has.
load_read ==
  LET m == loader.type
      f == disk[loader.path]
  IN
  /\ loader.pc = "reading"
  /\ IF f.exists /\ ~f.partial
       THEN /\ cache' = [cache EXCEPT ![m] = [model |-> f.ver, path |-> loader.path]]
            /\ loader' = [IdleLoader EXCEPT !.type = m, !.ret = "model"]
       ELSE /\ cache' = IF m = "yolo" THEN [cache EXCEPT ![m] = NoCache] ELSE cache
            /\ loader' = [IdleLoader EXCEPT !.type = m, !.ret = "NotReady"]
  /\ UNCHANGED <<status, disk, worker, ret, rpc, nops>>
  /\ UNCHANGED produced
  /\ UNCHANGED sideVars
  /\ UNCHANGED response

\* ------------------------------------------------------------ reset_annotator
\* The request handler of /reset_annotator removes the YOLO weights
\* model/best.pt and model/training/weights/best.pt, then the few-shot model
\* file, then calls YOLOModel.reset() and FewShotModelTrainer.reset().
reset_annotator_files ==
  /\ rpc = "idle"
  /\ nops < MaxOps
  /\ nops' = nops + 1
  /\ disk' = [disk EXCEPT ![MODEL_BEST] = Absent, ![TRAIN_BEST] = Absent,
                          ![FEWSHOT_MODEL_PATH] = Absent]
  /\ rpc' = "reset_yolo"
  /\ worker' = [j \in Jobs |->
                  IF worker[j].pc \in {"none", "done"} THEN worker[j]
                  ELSE [worker[j] EXCEPT !.undisturbed = FALSE]]
  /\ UNCHANGED <<status, cache, ret, loader>>
  /\ UNCHANGED produced
  /\ UNCHANGED sideVars
  /\ UNCHANGED response

\* a reset that clears MODEL_AVAILABLE only
reset_keeps_ready(m) ==
  /\ rpc = IF m = "yolo" THEN "reset_yolo" ELSE "reset_few_shot"
  /\ MODEL_AVAILABLE' = [MODEL_AVAILABLE EXCEPT ![m] = FALSE]
  /\ MODEL_READY' = MODEL_READY
  /\ produced' = [produced EXCEPT ![m] = NoModel]
  /\ rpc' = IF m = "yolo" THEN "clear_yolo" ELSE "clear_few_shot"
  /\ UNCHANGED <<TRAINING_IN_PROGRESS, TRAINING_PROGRESS, disk, cache, worker,
                 ret, loader, nops>>
  /\ UNCHANGED sideVars
  /\ UNCHANGED response

\* a reset that clears the flags of every model type
reset_all_types(m) ==
  /\ rpc = IF m = "yolo" THEN "reset_yolo" ELSE "reset_few_shot"
  /\ MODEL_AVAILABLE' = [t \in ModelTypes |-> FALSE]
  /\ MODEL_READY' = [t \in ModelTypes |-> FALSE]
  /\ produced' = [produced EXCEPT ![m] = NoModel]
  /\ rpc' = IF m = "yolo" THEN "clear_yolo" ELSE "clear_few_shot"
  /\ UNCHANGED <<TRAINING_IN_PROGRESS, TRAINING_PROGRESS, disk, cache, worker,
                 ret, loader, nops>>
  /\ UNCHANGED sideVars
  /\ UNCHANGED response

\* reset(): the block under LOCK
reset(m) ==
  /\ rpc = IF m = "yolo" THEN "reset_yolo" ELSE "reset_few_shot"
  /\ MODEL_AVAILABLE' = [MODEL_AVAILABLE EXCEPT ![m] = FALSE]
  /\ MODEL_READY' = [MODEL_READY EXCEPT ![m] = FALSE]
  /\ produced' = [produced EXCEPT ![m] = NoModel]
  /\ rpc' = IF m = "yolo" THEN "clear_yolo" ELSE "clear_few_shot"
  /\ UNCHANGED <<TRAINING_IN_PROGRESS, TRAINING_PROGRESS, disk, cache, worker,
                 ret, loader, nops>>
  /\ UNCHANGED sideVars
  /\ UNCHANGED response

\* reset(): "Clear cached model", outside LOCK; reset() returns.  A
\* _load_model_if_needed call of this type that is past its status check
\* is marked: reset() returned while it ran.
reset_clear_cache(m) ==
  /\ rpc = IF m = "yolo" THEN "clear_yolo" ELSE "clear_few_shot"
  /\ cache' = [cache EXCEPT ![m] = NoCache]
  /\ rpc' = IF m = "yolo" THEN "reset_few_shot" ELSE "idle"
  /\ loader' = IF loader.type = m /\ loader.pc # "idle"
                 THEN [loader EXCEPT !.reset = TRUE]
                 ELSE loader
  /\ UNCHANGED <<status, disk, worker, ret, nops>>
  /\ UNCHANGED produced
  /\ UNCHANGED sideVars
  /\ UNCHANGED response

\* ------------------------------------------------------------- HTTP layer
\* The routes of app.py read get_model_status() and, where they find a model
\* available, not training and not ready, go on to
\*     with YOLOModel.LOCK: YOLOModel.MODEL_READY = True
\* LOCK and MODEL_READY are globals of the modules yolo_model and
\* few_shot_model; the classes YOLOModel and FewShotModelTrainer have no
\* attribute LOCK, so the with statement raises AttributeError before the
\* assignment and the request ends in an error.

\* a /predict whose forcing of the ready state takes effect
predict_forced_ready(m) ==
  LET st == get_model_status(m) IN
  /\ response' = IF st.training_in_progress \/ ~st.is_available THEN "400"
                 ELSE "ok"
  /\ MODEL_READY' = IF ~st.training_in_progress /\ st.is_available
                      THEN [MODEL_READY EXCEPT ![m] = TRUE]
                      ELSE MODEL_READY
  /\ UNCHANGED <<TRAINING_IN_PROGRESS, TRAINING_PROGRESS, MODEL_AVAILABLE,
                 disk, cache, worker, ret, loader, rpc, nops, produced>>
  /\ UNCHANGED sideVars

\* POST /predict, up to the call of the model's predict
predict(m) ==
  LET st == get_model_status(m) IN
  /\ response' = IF st.training_in_progress \/ ~st.is_available THEN "400"
                 ELSE IF ~st.is_ready THEN "500"
                 ELSE "ok"
  /\ MODEL_READY' = MODEL_READY
  /\ UNCHANGED <<TRAINING_IN_PROGRESS, TRAINING_PROGRESS, MODEL_AVAILABLE,
                 disk, cache, worker, ret, loader, rpc, nops, produced>>
  /\ UNCHANGED sideVars

\* the status checks of both models in /get_predictions_with_uncertainty and
\* /update_all_uncertainty_scores
uncertainty_status ==
  LET yolo_status == get_model_status("yolo")
      few_shot_status == get_model_status("few_shot")
  IN IF yolo_status.training_in_progress \/ few_shot_status.training_in_progress
       THEN "400"
     ELSE IF ~yolo_status.is_available \/ ~few_shot_status.is_available
       THEN "400"
     ELSE IF ~yolo_status.is_ready \/ ~few_shot_status.is_ready
       THEN "500"
     ELSE "ok"

\* POST /get_predictions_with_uncertainty, up to the predictions
get_predictions_with_uncertainty ==
  /\ response' = uncertainty_status
  /\ UNCHANGED <<status, disk, cache, worker, ret, loader, rpc, nops, produced>>
  /\ UNCHANGED sideVars

\* POST /update_all_uncertainty_scores, up to the database query; the
\* AttributeError is caught by the handler of the route
update_all_uncertainty_scores ==
  /\ response' = uncertainty_status
  /\ UNCHANGED <<status, disk, cache, worker, ret, loader, rpc, nops, produced>>
  /\ UNCHANGED sideVars

\* train_and_predict, the thread of POST /train_model, after its call of
\* start_training: the polling wait ends with the model ready, or it times
\* out, or the model is not ready after the wait; the last two go on to the
\* forcing of the ready state, whose AttributeError ends the thread
train_and_predict(m) ==
  LET st == get_model_status(m) IN
  /\ \E j \in Jobs : worker[j].type = m
  /\ response' = IF ~st.training_in_progress /\ st.is_available /\ st.is_ready
                   THEN "ok" ELSE "error"
  /\ UNCHANGED <<status, disk, cache, worker, ret, loader, rpc, nops, produced>>
  /\ UNCHANGED sideVars

\* One step of the training thread of job j
train_model_thread(j) ==
  \/ train_begin(j)
  \/ prepare_exit(j)
  \/ prepare_failed(j)
  \/ prepare_ok(j)
  \/ fewshot_epoch(j)
  \/ fewshot_saved(j)
  \/ yolo_epoch(j)
  \/ yolo_saved(j)
  \/ save_begin(j)
  \/ save_end(j)
  \/ train_finish(j)
  \/ train_ready(j)
  \/ train_exception(j)

Next ==
  \/ \E m \in ModelTypes : start_training(m)
  \/ \E j \in Jobs : train_begin(j)
  \/ \E j \in Jobs : prepare_exit(j)
  \/ \E j \in Jobs : prepare_failed(j)
  \/ \E j \in Jobs : prepare_ok(j)
  \/ \E j \in Jobs : fewshot_epoch(j)
  \/ \E j \in Jobs : fewshot_saved(j)
  \/ \E j \in Jobs : yolo_epoch(j)
  \/ \E j \in Jobs : yolo_saved(j)
  \/ \E j \in Jobs : save_begin(j)
  \/ \E j \in Jobs : save_end(j)
  \/ \E j \in Jobs : train_finish(j)
  \/ \E j \in Jobs : train_ready(j)
  \/ \E j \in Jobs : train_exception(j)
  \/ \E m \in ModelTypes : load_check(m)
  \/ load_resolve
  \/ load_read
  \/ reset_annotator_files
  \/ \E m \in ModelTypes : reset(m)
  \/ \E m \in ModelTypes : reset_clear_cache(m)
  \/ \E m \in ModelTypes : predict(m)
  \/ get_predictions_with_uncertainty
  \/ update_all_uncertainty_scores
  \/ \E m \in ModelTypes : train_and_predict(m)

Spec == Init /\ [][Next]_vars

\* The server after it has answered a prediction request for each model type
\* that was ready at start-up: the handle of the weight file resolved then is
\* in the cache.
WarmInit ==
  /\ SideIdle
  /\ disk \in StartupDisks
  /\ TRAINING_IN_PROGRESS = [m \in ModelTypes |-> FALSE]
  /\ TRAINING_PROGRESS = [m \in ModelTypes |-> 0]
  /\ MODEL_AVAILABLE =
       [m \in ModelTypes |->
          IF m = "yolo" THEN exists(YOLO_MODEL_PATH) \/ exists(TRAIN_LAST)
                        ELSE exists(FEWSHOT_MODEL_PATH)]
  /\ MODEL_READY = MODEL_AVAILABLE
  /\ cache =
       [m \in ModelTypes |->
          IF ~not_ready(m) /\ resolved_path(m) # "none"
            THEN [model |-> resolved_artifact(m).ver, path |-> resolved_path(m)]
            ELSE NoCache]
  /\ worker = [j \in Jobs |-> NoWorker]
  /\ ret = "none"
  /\ loader = IdleLoader
  /\ rpc = "idle"
  /\ nops = 0
  /\ produced = [m \in ModelTypes |-> NoModel]
  /\ response = "none"

WarmSpec == WarmInit /\ [][Next]_vars

\* Python schedules every started thread: a training thread that can take a
\* step eventually takes one.
FairSpec == Spec /\ \A j \in Jobs : WF_vars(train_model_thread(j))

\* ============================================================ predict_batch
\* ---- exact arithmetic on the floats of the code: a number is <<n, d>>, d > 0
\* in lowest terms
Zero == <<0, 1>>
One == <<1, 1>>
RECURSIVE GCD(_, _)
GCD(a, b) == IF b = 0 THEN a ELSE GCD(b, a % b)
Abs(n) == IF n < 0 THEN -n ELSE n
Frac(n, d) == LET g == GCD(Abs(n), d) IN <<n \div g, d \div g>>
RLess(a, b) == a[1] * b[2] < b[1] * a[2]
RLeq(a, b) == a[1] * b[2] <= b[1] * a[2]
REq(a, b) == a[1] * b[2] = b[1] * a[2]
RAdd(a, b) == Frac(a[1] * b[2] + b[1] * a[2], a[2] * b[2])
RSub(a, b) == Frac(a[1] * b[2] - b[1] * a[2], a[2] * b[2])
RMul(a, b) == Frac(a[1] * b[1], a[2] * b[2])
\* Python's min(a, b) and max(a, b): the first argument unless the second
\* is strictly smaller (larger)
min(a, b) == IF RLess(b, a) THEN b ELSE a
max(a, b) == IF RLess(a, b) THEN b ELSE a

Range(s) == {s[i] : i \in 1..Len(s)}

\* ---- coordinate normalization of YOLOModel.predict_batch
\* a box clamped with 1.0 as the upper bound of x and y
normalize_box_clamp_one(b) ==
  LET x == max(Zero, min(One, Frac(b.x1, b.width)))
      y == max(Zero, min(One, Frac(b.y1, b.height)))
      w == max(<<1, 1000>>, min(RSub(One, x), Frac(b.x2 - b.x1, b.width)))
      h == max(<<1, 1000>>, min(RSub(One, y), Frac(b.y2 - b.y1, b.height)))
  IN [x |-> x, y |-> y, width |-> w, height |-> h]

\* x = x1 / width ... h = max(0.001, min(1.0 - y, h)), for the raw corner
\* box b of an image of b.width x b.height pixels
normalize_box(b) ==
  LET x == max(Zero, min(<<999, 1000>>, Frac(b.x1, b.width)))
      y == max(Zero, min(<<999, 1000>>, Frac(b.y1, b.height)))
      w == max(<<1, 1000>>, min(RSub(One, x), Frac(b.x2 - b.x1, b.width)))
      h == max(<<1, 1000>>, min(RSub(One, y), Frac(b.y2 - b.y1, b.height)))
  IN [x |-> x, y |-> y, width |-> w, height |-> h]

\* ---- the images and what the networks compute for them
Names == {"a.jpg", "b.jpg"}

\* class_names of the loaded model: YOLO's id -> name map, the few-shot list
yolo_class_names == [cls \in {0, 1} |-> IF cls = 0 THEN "cat" ELSE "dog"]
fewshot_class_names == <<"cat", "dog">>

\* Outputs of the two networks for one image: the detector's raw boxes
\* (pixel corners, conf in tenths, class id, image size) and the classifier's
\* score per class (in tenths).
NetOutputs ==
  { [boxes |-> <<>>, scores |-> <<3, 5>>],
    [boxes |-> <<[x1 |-> 1, y1 |-> 0, x2 |-> 3, y2 |-> 2, conf |-> 9,
                  cls |-> 0, width |-> 4, height |-> 4]>>,
     scores |-> <<9, 2>>],
    [boxes |-> <<[x1 |-> 1, y1 |-> 0, x2 |-> 3, y2 |-> 2, conf |-> 9,
                  cls |-> 0, width |-> 4, height |-> 4],
                 [x1 |-> -1, y1 |-> 2, x2 |-> 5, y2 |-> 4, conf |-> 3,
                  cls |-> 7, width |-> 4, height |-> 4]>>,
     scores |-> <<6, 8>>] }

\* {filename: [] for filename in filenames}
empty_results(filenames) == [f \in Range(filenames) |-> <<>>]

\* the predictions built from result.boxes of one image
yolo_predictions(f) ==
  LET boxes == outputs[f].boxes IN
  [i \in 1..Len(boxes) |->
     LET b == boxes[i]
         n == normalize_box(b)
     IN [x |-> n.x, y |-> n.y, width |-> n.width, height |-> n.height,
         label |-> IF b.cls \in DOMAIN yolo_class_names
                     THEN yolo_class_names[b.cls] ELSE <<"unknown", b.cls>>,
         confidence |-> b.conf, source |-> "ai", isVerified |-> FALSE]]

\* the classes whose score is above the confidence threshold 0.5
RECURSIVE fewshot_results(_, _)
fewshot_results(f, k) ==
  IF k > Len(fewshot_class_names) THEN <<>>
  ELSE LET confidence == outputs[f].scores[k]
           rest == fewshot_results(f, k + 1)
       IN IF confidence > 5
            THEN <<[label |-> fewshot_class_names[k],
                    confidence |-> confidence, source |-> "ai"]>> \o rest
            ELSE rest

\* YOLOModel.predict_batch that stops at the first missing image file
yolo_predict_batch_abort_on_missing(filenames, loaded, raises) ==
  LET valid_filenames == SelectSeq(filenames, LAMBDA f : f \in uploads) IN
  IF ~loaded THEN empty_results(filenames)
  ELSE IF valid_filenames # filenames THEN empty_results(filenames)
  ELSE IF raises \/ \E f \in Range(valid_filenames) : f \in corrupt
    THEN empty_results(filenames)
  ELSE [f \in Range(filenames) |-> yolo_predictions(f)]

\* YOLOModel.predict_batch without its last loop, "Add empty results for
\* files that weren't processed"
yolo_predict_batch_no_fill(filenames, loaded, raises) ==
  LET valid_filenames == SelectSeq(filenames, LAMBDA f : f \in uploads) IN
  IF ~loaded THEN empty_results(filenames)
  ELSE IF valid_filenames = <<>> THEN empty_results(filenames)
  ELSE IF raises \/ \E f \in Range(valid_filenames) : f \in corrupt
    THEN empty_results(filenames)
  ELSE [f \in Range(valid_filenames) |-> yolo_predictions(f)]

\* YOLOModel.predict_batch(filenames).  `loaded`: _load_model_if_needed
\* returned a model and a class mapping; `raises`: the batch inference
\* raises.  An image PIL cannot open makes the inference or Image.open
\* raise.  Every exception ends in the handler of the whole body.
yolo_predict_batch(filenames, loaded, raises) ==
  LET valid_filenames == SelectSeq(filenames, LAMBDA f : f \in uploads) IN
  IF ~loaded THEN empty_results(filenames)
  ELSE IF valid_filenames = <<>> THEN empty_results(filenames)
  ELSE IF raises \/ \E f \in Range(valid_filenames) : f \in corrupt
    THEN empty_results(filenames)
  ELSE [f \in Range(filenames) |->
          IF f \in Range(valid_filenames) THEN yolo_predictions(f) ELSE <<>>]

\* FewShotModelTrainer.predict_batch(filenames).  A missing image and an image
\* that cannot be opened get [] in the loop over the chunk (chunks of
\* batch_size = 16 filenames); an exception of torch.stack or of the model on
\* any chunk ends in the handler of the whole body.
fewshot_predict_batch(filenames, loaded, raises) ==
  LET valid_filenames ==
        SelectSeq(filenames, LAMBDA f : f \in uploads /\ f \notin corrupt)
  IN
  IF ~loaded THEN empty_results(filenames)
  ELSE IF valid_filenames # <<>> /\ raises THEN empty_results(filenames)
  ELSE [f \in Range(filenames) |->
          IF f \in Range(valid_filenames) THEN fewshot_results(f, 1) ELSE <<>>]

predict_batch_result(m, filenames, loaded, raises) ==
  IF m = "yolo" THEN yolo_predict_batch(filenames, loaded, raises)
                ELSE fewshot_predict_batch(filenames, loaded, raises)

\* the sequences of at most n filenames
RECURSIVE SeqsUpTo(_, _)
SeqsUpTo(S, n) ==
  IF n = 0 THEN {<<>>}
  ELSE LET shorter == SeqsUpTo(S, n - 1) IN
       shorter \cup {Append(s, x) : s \in shorter, x \in S}

\* one predict_batch call
predict_batch(m) ==
  /\ \E filenames \in SeqsUpTo(Names, MaxBatch) : \E loaded, raises \in BOOLEAN :
       /\ request' = [type |-> m, filenames |-> filenames, loaded |-> loaded,
                      raises |-> raises]
       /\ batch_predictions' = predict_batch_result(m, filenames, loaded, raises)
  /\ UNCHANGED <<uploads, corrupt, outputs>>
  /\ UNCHANGED <<trainVars, boxVars, scoreVars, registryVars, dataVars>>

\* the uploads directory and the networks, before any call
PredictInit ==
  /\ TrainIdle
  /\ RegistryIdle
  /\ DataIdle
  /\ BoxIdle
  /\ ScoreIdle
  /\ uploads \in SUBSET Names
  /\ corrupt \in SUBSET uploads
  /\ outputs \in [Names -> NetOutputs]
  /\ request = <<>>
  /\ batch_predictions = <<>>

PredictNext == \E m \in ModelTypes : predict_batch(m)

PredictSpec == PredictInit /\ [][PredictNext]_vars

\* ---- one detector box of one image
\* the pixel corners a detector can return for an image of at most
\* MaxDim x MaxDim pixels: inside the image, on its border, or outside of it
RawBoxes ==
  [x1 : -1..MaxDim + 1, y1 : -1..MaxDim + 1, x2 : -1..MaxDim + 1,
   y2 : -1..MaxDim + 1, width : 1..MaxDim, height : 1..MaxDim]

BoxInit ==
  /\ TrainIdle
  /\ RegistryIdle
  /\ DataIdle
  /\ PredictIdle
  /\ ScoreIdle
  /\ box \in RawBoxes
  /\ prediction = <<>>

\* the conversion of the box in the loop over result.boxes
convert_box ==
  /\ prediction = <<>>
  /\ prediction' = normalize_box(box)
  /\ UNCHANGED <<box, trainVars, predictVars, scoreVars, registryVars, dataVars>>

BoxNext == convert_box

BoxSpec == BoxInit /\ [][BoxNext]_vars

\* ================================================ calculate_uncertainty_score
Labels == {"cat", "dog"}
\* confidences, in tenths
Confidences == {0, 7, 10}
Predictions == [label : Labels, confidence : Confidences]

\* sum(pred.get('confidence', 0.5) for pred in preds), in tenths
RECURSIVE sum_confidence(_)
sum_confidence(preds) ==
  IF preds = <<>> THEN 0
  ELSE (IF "confidence" \in DOMAIN Head(preds) THEN Head(preds).confidence ELSE 5)
       + sum_confidence(Tail(preds))

\* the score with one average confidence over the predictions of both models
calculate_uncertainty_score_pooled(yolo, few_shot) ==
  IF yolo = <<>> /\ few_shot = <<>> THEN One
  ELSE IF yolo = <<>> \/ few_shot = <<>> THEN <<8, 10>>
  ELSE
    LET yolo_label_set == {yolo[i].label : i \in 1..Len(yolo)}
        few_shot_label_set == {few_shot[i].label : i \in 1..Len(few_shot)}
        all_labels == yolo_label_set \cup few_shot_label_set
        common_labels == yolo_label_set \cap few_shot_label_set
        label_disagreement ==
          RSub(One, Frac(Cardinality(common_labels), Cardinality(all_labels)))
        pred_count_diff == Abs(Len(yolo) - Len(few_shot))
        count_disagreement == min(<<2, 10>>, Frac(pred_count_diff, 10))
        avg_confidence ==
          Frac(sum_confidence(yolo) + sum_confidence(few_shot),
               10 * (Len(yolo) + Len(few_shot)))
        confidence_uncertainty == RSub(One, avg_confidence)
        uncertain ==
          RAdd(RAdd(RMul(<<6, 10>>, label_disagreement),
                    RMul(<<3, 10>>, confidence_uncertainty)),
               RMul(<<1, 10>>, count_disagreement))
    IN min(One, uncertain)

\* the score with the weights of label disagreement and confidence swapped
calculate_uncertainty_score_swapped(yolo, few_shot) ==
  IF yolo = <<>> /\ few_shot = <<>> THEN One
  ELSE IF yolo = <<>> \/ few_shot = <<>> THEN <<8, 10>>
  ELSE
    LET yolo_label_set == {yolo[i].label : i \in 1..Len(yolo)}
        few_shot_label_set == {few_shot[i].label : i \in 1..Len(few_shot)}
        all_labels == yolo_label_set \cup few_shot_label_set
        common_labels == yolo_label_set \cap few_shot_label_set
        label_disagreement ==
          RSub(One, Frac(Cardinality(common_labels), Cardinality(all_labels)))
        pred_count_diff == Abs(Len(yolo) - Len(few_shot))
        count_disagreement == min(<<2, 10>>, Frac(pred_count_diff, 10))
        yolo_conf_avg == Frac(sum_confidence(yolo), 10 * Len(yolo))
        few_shot_conf_avg == Frac(sum_confidence(few_shot), 10 * Len(few_shot))
        avg_confidence == RMul(RAdd(yolo_conf_avg, few_shot_conf_avg), <<1, 2>>)
        confidence_uncertainty == RSub(One, avg_confidence)
        uncertain ==
          RAdd(RAdd(RMul(<<3, 10>>, label_disagreement),
                    RMul(<<6, 10>>, confidence_uncertainty)),
               RMul(<<1, 10>>, count_disagreement))
    IN min(One, uncertain)

\* the score that gives 0.8 only when the detector is the silent one
calculate_uncertainty_score_one_sided(yolo, few_shot) ==
  IF yolo = <<>> /\ few_shot = <<>> THEN One
  ELSE IF yolo = <<>> THEN <<8, 10>>
  ELSE IF few_shot = <<>> THEN RSub(One, Frac(sum_confidence(yolo), 10 * Len(yolo)))
  ELSE
    LET yolo_label_set == {yolo[i].label : i \in 1..Len(yolo)}
        few_shot_label_set == {few_shot[i].label : i \in 1..Len(few_shot)}
        all_labels == yolo_label_set \cup few_shot_label_set
        common_labels == yolo_label_set \cap few_shot_label_set
        label_disagreement ==
          RSub(One, Frac(Cardinality(common_labels), Cardinality(all_labels)))
        pred_count_diff == Abs(Len(yolo) - Len(few_shot))
        count_disagreement == min(<<2, 10>>, Frac(pred_count_diff, 10))
        yolo_conf_avg == Frac(sum_confidence(yolo), 10 * Len(yolo))
        few_shot_conf_avg == Frac(sum_confidence(few_shot), 10 * Len(few_shot))
        avg_confidence == RMul(RAdd(yolo_conf_avg, few_shot_conf_avg), <<1, 2>>)
        confidence_uncertainty == RSub(One, avg_confidence)
        uncertain ==
          RAdd(RAdd(RMul(<<6, 10>>, label_disagreement),
                    RMul(<<3, 10>>, confidence_uncertainty)),
               RMul(<<1, 10>>, count_disagreement))
    IN min(One, uncertain)

\* calculate_uncertainty_score(yolo_preds, few_shot_preds)
calculate_uncertainty_score(yolo, few_shot) ==
  IF yolo = <<>> /\ few_shot = <<>> THEN One
  ELSE IF yolo = <<>> \/ few_shot = <<>> THEN <<8, 10>>
  ELSE
    LET yolo_label_set == {yolo[i].label : i \in 1..Len(yolo)}
        few_shot_label_set == {few_shot[i].label : i \in 1..Len(few_shot)}
        all_labels == yolo_label_set \cup few_shot_label_set
        common_labels == yolo_label_set \cap few_shot_label_set
        label_disagreement ==
          RSub(One, Frac(Cardinality(common_labels), Cardinality(all_labels)))
        pred_count_diff == Abs(Len(yolo) - Len(few_shot))
        count_disagreement == min(<<2, 10>>, Frac(pred_count_diff, 10))
        yolo_conf_avg == Frac(sum_confidence(yolo), 10 * Len(yolo))
        few_shot_conf_avg == Frac(sum_confidence(few_shot), 10 * Len(few_shot))
        avg_confidence == RMul(RAdd(yolo_conf_avg, few_shot_conf_avg), <<1, 2>>)
        confidence_uncertainty == RSub(One, avg_confidence)
        uncertain ==
          RAdd(RAdd(RMul(<<6, 10>>, label_disagreement),
                    RMul(<<3, 10>>, confidence_uncertainty)),
               RMul(<<1, 10>>, count_disagreement))
    IN min(One, uncertain)

\* the predictions of the two models for one image
ScoreInit ==
  /\ TrainIdle
  /\ RegistryIdle
  /\ DataIdle
  /\ PredictIdle
  /\ BoxIdle
  /\ yolo_preds \in SeqsUpTo(Predictions, MaxPreds)
  /\ few_shot_preds \in SeqsUpTo(Predictions, MaxPreds)
  /\ uncertainty = <<>>

\* get_predictions_with_uncertainty computes the score of the image
score_image ==
  /\ uncertainty = <<>>
  /\ uncertainty' = calculate_uncertainty_score(yolo_preds, few_shot_preds)
  /\ UNCHANGED <<yolo_preds, few_shot_preds, trainVars, predictVars, boxVars,
                 registryVars, dataVars>>

ScoreNext == score_image

ScoreSpec == ScoreInit /\ [][ScoreNext]_vars

\* ===================================================== update_class_mapping
\* Labels are numbered in their sort order: label 1 sorts before label 2.
ClassLabels == 1..NumLabels

\* sorted(list(all_labels))
RECURSIVE sorted(_)
sorted(S) ==
  IF S = {} THEN <<>>
  ELSE LET least == CHOOSE x \in S : \A y \in S : x <= y
       IN <<least>> \o sorted(S \ {least})

\* max(class_map.values())
MaxId(class_map) ==
  CHOOSE v \in {class_map[l] : l \in DOMAIN class_map} :
    \A l \in DOMAIN class_map : class_map[l] <= v

\* update_class_mapping whose next_id is the largest kept ID itself
update_class_mapping_reuse_max(existing_map, classes) ==
  IF classes = <<>> THEN existing_map
  ELSE
    LET kept == [label \in DOMAIN existing_map \cap Range(classes) |->
                   existing_map[label]]
        next_id == IF DOMAIN kept # {} THEN MaxId(kept) ELSE 0
        added == SelectSeq(classes, LAMBDA label : label \notin DOMAIN kept)
    IN [label \in Range(classes) |->
          IF label \in DOMAIN kept THEN kept[label]
          ELSE next_id + (CHOOSE i \in 1..Len(added) : added[i] = label) - 1]

\* update_class_mapping that numbers the classes anew at every call
update_class_mapping_renumber(existing_map, classes) ==
  IF classes = <<>> THEN existing_map
  ELSE [label \in Range(classes) |->
          (CHOOSE i \in 1..Len(classes) : classes[i] = label) - 1]

\* update_class_mapping(classes), existing_map being what model/classes.json
\* holds (the empty mapping when the file cannot be read): the content of
\* model/classes.json afterwards.  The labels of existing_map that are in
\* classes keep their IDs; the others of classes get next_id, next_id + 1,
\* ... in the order of the list.  An empty list writes nothing.
update_class_mapping(existing_map, classes) ==
  IF classes = <<>> THEN existing_map
  ELSE
    LET kept == [label \in DOMAIN existing_map \cap Range(classes) |->
                   existing_map[label]]
        next_id == IF DOMAIN kept # {} THEN MaxId(kept) + 1 ELSE 0
        added == SelectSeq(classes, LAMBDA label : label \notin DOMAIN kept)
    IN [label \in Range(classes) |->
          IF label \in DOMAIN kept THEN kept[label]
          ELSE next_id + (CHOOSE i \in 1..Len(added) : added[i] = label) - 1]

\* no model/classes.json, no call made
RegistryInit ==
  /\ TrainIdle
  /\ PredictIdle
  /\ BoxIdle
  /\ ScoreIdle
  /\ DataIdle
  /\ classes_json = <<>>
  /\ updates = <<>>
  /\ dataset_yaml = NoManifest

\* class_names = ["" for _ in range(len(class_map))]
EmptyName == 0

\* class_names[idx] = name raises IndexError for an idx outside the list
IndexError(class_map) ==
  \E name \in DOMAIN class_map : class_map[name] >= Cardinality(DOMAIN class_map)

\* create_dataset_yaml(class_map): nc is len(class_map), names has the
\* name of every entry at its idx and "" where no entry has the idx
create_dataset_yaml(class_map) ==
  LET n == Cardinality(DOMAIN class_map)
  IN [nc |-> n,
      names |-> [i \in 1..n |->
                   IF \E name \in DOMAIN class_map : class_map[name] = i - 1
                   THEN CHOOSE name \in DOMAIN class_map : class_map[name] = i - 1
                   ELSE EmptyName]]

\* datasets/dataset.yaml after main(): update_class_mapping, then
\* create_dataset_yaml on its result; sys.exit(1) before both without a
\* label, and the IndexError ends main() with the old manifest in place
manifest_after_main(all_labels) ==
  IF all_labels = {} \/ IndexError(update_class_mapping(classes_json, sorted(all_labels)))
  THEN dataset_yaml
  ELSE create_dataset_yaml(update_class_mapping(classes_json, sorted(all_labels)))

\* ensure_class_consistency.main(): the verified labels of the database,
\* sorted, go to update_class_mapping
ensure_consistency(all_labels) ==
  /\ Len(updates) < MaxUpdates
  /\ classes_json' = update_class_mapping(classes_json, sorted(all_labels))
  /\ dataset_yaml' = manifest_after_main(all_labels)
  /\ updates' = Append(updates, all_labels)
  /\ UNCHANGED <<trainVars, predictVars, boxVars, scoreVars, dataVars>>

RegistryNext == \E all_labels \in SUBSET ClassLabels : ensure_consistency(all_labels)

RegistrySpec == RegistryInit /\ [][RegistryNext]_vars

\* ------------------------------------------------- dataset directories
\* YOLOModel.prepare_data (yolo_model.py) and the /augment_images route
\* (app.py) write datasets/train/images and datasets/val/images; both start
\* with ensure_class_consistency.main().  The label directories hold one
\* .txt file beside every image file and are not kept apart.

Images == {"a.jpg", "b.jpg", "c.jpg"}

\* labels of the rows; a row has one verified box with this label, or none
ImageLabels == {1, 2}

NoLabel == 0

\* np.random.seed(42)
SEED == 42

\* a file of a dataset directory: uploads/<name> copied (aug = FALSE) or
\* <stem>_aug<idx><ext> made from it (aug = TRUE)
DatasetFiles == [name : Images, aug : BOOLEAN]

\* '_aug' in filename
is_aug(file) == file.aug

\* a filter that lets every row through
has_verified_always(filename) == filename \in Images

\* verified_boxes of the row is not empty
has_verified(filename) == annotations[filename] # NoLabel

\* get_all_classes_from_database(): the labels of the verified boxes
all_classes == {annotations[f] : f \in Images} \ {NoLabel}

\* Image.open(src_path) succeeds on an existing file
readable(filename) == filename \in uploads /\ filename \notin corrupt

\* np.random.choice(n, k, replace=False) from a generator state: k distinct
\* indices of 0..n-1.  Which ones is a function of the state; the stride
\* of the rotation stands for the generator's stream.
choice(state, n, k) == {(state + j) % n : j \in 0..(k - 1)}

\* the split computed from whatever state the generator is in
train_indices_unseeded(state, n) == choice(state, n, (8 * n) \div 10)

\* np.random.seed(42); np.random.choice(len(valid_images),
\* int(0.8 * len(valid_images)), replace=False): seeding discards the state
train_indices(state, n) == choice(SEED, n, (8 * n) \div 10)

\* {name: idx for idx, name in enumerate(sorted(classes))}
fresh_class_map(classes) ==
  [label \in classes |->
     (CHOOSE i \in 1..Cardinality(classes) : sorted(classes)[i] = label) - 1]

NoCall == [pc |-> "idle", images_data |-> <<>>, valid_images |-> <<>>,
           class_names |-> <<>>, train_set |-> {}]

NoPartition == [done |-> FALSE, images_data |-> <<>>, train |-> {},
                val |-> {}, ret |-> FALSE, repeated |-> FALSE]

NoAugment == [pc |-> "idle", num_augmentations |-> 0]

\* no few-shot job: no dataset, model/few_shot_classes.json as it was
NoDataset == [pc |-> "idle", images_data |-> <<>>, class_map |-> <<>>,
              done |-> FALSE, raised |-> FALSE]

\* sequences of distinct filenames
ImageLists == {l \in SeqsUpTo(Images, Cardinality(Images)) :
                 \A i, j \in 1..Len(l) : l[i] = l[j] => i = j}

\* some rows annotated, some files uploaded, empty dataset directories, the
\* generator in the state the process start left it in
DataInit ==
  /\ TrainIdle
  /\ BoxIdle
  /\ ScoreIdle
  /\ RegistryIdle
  /\ uploads \in SUBSET Images
  /\ corrupt \in SUBSET uploads
  /\ outputs = <<>>
  /\ request = <<>>
  /\ batch_predictions = <<>>
  /\ annotations \in [Images -> {NoLabel} \cup ImageLabels]
  /\ datasets = [train |-> {}, val |-> {}]
  /\ np_random \in {0, 1}
  /\ prepare = NoCall
  /\ partition = NoPartition
  /\ augment = NoAugment
  /\ ncalls = 0
  /\ fewshot = NoDataset

\* POST /save_annotations for an image without a verified box: the row gets
\* a verified box with this label
save_annotations(filename, label) ==
  /\ annotations[filename] = NoLabel
  /\ annotations' = [annotations EXCEPT ![filename] = label]
  /\ UNCHANGED <<datasets, np_random, prepare, partition, augment, ncalls, fewshot>>
  /\ UNCHANGED <<trainVars, predictVars, boxVars, scoreVars, registryVars>>

\* prepare_data(images_data) up to the split.  images_data are the rows of
\* the given filenames, with their annotations.  ensure_consistency() leaves
\* through sys.exit(1) when the database has no verified label, and
\* SystemExit is not an Exception: the call ends there.  Without a valid
\* image it returns False.  Otherwise the files that are not augmented are
\* removed, model/classes.json is written anew and the split is drawn.
prepare_data(images_data) ==
  /\ prepare.pc = "idle"
  /\ ncalls < MaxCalls
  /\ ncalls' = ncalls + 1
  /\ LET valid_images == SelectSeq(images_data, has_verified)
     IN IF all_classes = {}
        THEN UNCHANGED <<registryVars, datasets, np_random, prepare>>
        ELSE /\ updates' = Append(updates, all_classes)
             /\ dataset_yaml' = manifest_after_main(all_classes)
             /\ IF valid_images = <<>>
                THEN /\ classes_json' =
                          update_class_mapping(classes_json, sorted(all_classes))
                     /\ UNCHANGED <<datasets, np_random, prepare>>
                ELSE /\ datasets' =
                          [train |-> {f \in datasets.train : is_aug(f)},
                           val |-> {f \in datasets.val : is_aug(f)}]
                     /\ classes_json' =
                          fresh_class_map({annotations[f] : f \in Range(valid_images)})
                     /\ np_random' = SEED + 1
                     /\ prepare' =
                          [pc |-> "copy",
                           images_data |->
                             [i \in 1..Len(images_data) |->
                                [filename |-> images_data[i],
                                 label |-> annotations[images_data[i]]]],
                           valid_images |-> valid_images,
                           class_names |->
                             sorted({annotations[f] : f \in Range(valid_images)}),
                           train_set |-> train_indices(np_random, Len(valid_images))]
  /\ UNCHANGED <<annotations, partition, augment, fewshot>>
  /\ UNCHANGED <<trainVars, predictVars, boxVars, scoreVars>>

\* the loop of prepare_data over valid_images and its return: an image whose
\* source is missing or unreadable is skipped; index i goes to
\* datasets/train/images if i in train_set, else to datasets/val/images; then
\* datasets/dataset.yaml is written with nc = len(class_map) and
\* names = class_names
prepare_copy ==
  /\ prepare.pc = "copy"
  /\ LET valid_images == prepare.valid_images
         copied == {i \in 0..(Len(valid_images) - 1) : readable(valid_images[i + 1])}
         train == {valid_images[i + 1] : i \in copied \cap prepare.train_set}
         val == {valid_images[i + 1] : i \in copied \ prepare.train_set}
     IN /\ datasets' =
             [train |-> datasets.train \cup {[name |-> f, aug |-> FALSE] : f \in train},
              val |-> datasets.val \cup {[name |-> f, aug |-> FALSE] : f \in val}]
        /\ partition' =
             [done |-> TRUE,
              images_data |-> prepare.images_data,
              train |-> train,
              val |-> val,
              ret |-> (train # {} /\ val # {}),
              repeated |-> (partition.done
                              /\ partition.images_data = prepare.images_data)]
  /\ dataset_yaml' = [nc |-> Len(prepare.class_names),
                      names |-> prepare.class_names]
  /\ prepare' = NoCall
  /\ UNCHANGED <<annotations, np_random, augment, ncalls, fewshot>>
  /\ UNCHANGED <<classes_json, updates>>
  /\ UNCHANGED <<trainVars, predictVars, boxVars, scoreVars>>

\* POST /augment_images up to the loop: ensure_consistency(), whose
\* IndexError ends the request with status 500, then the files of
\* datasets/train/images whose name contains '_aug' are removed
augment_images(num_augmentations) ==
  /\ augment.pc = "idle"
  /\ ncalls < MaxCalls
  /\ ncalls' = ncalls + 1
  /\ IF all_classes = {}
     THEN UNCHANGED <<registryVars, datasets, augment>>
     ELSE /\ updates' = Append(updates, all_classes)
          /\ classes_json' = update_class_mapping(classes_json, sorted(all_classes))
          /\ dataset_yaml' = manifest_after_main(all_classes)
          /\ IF IndexError(update_class_mapping(classes_json, sorted(all_classes)))
             THEN UNCHANGED <<datasets, augment>>
             ELSE /\ datasets' = [datasets EXCEPT !.train = {f \in @ : ~is_aug(f)}]
                  /\ augment' = [pc |-> "create",
                                 num_augmentations |-> num_augmentations]
  /\ UNCHANGED <<annotations, np_random, prepare, partition, fewshot>>
  /\ UNCHANGED <<trainVars, predictVars, boxVars, scoreVars>>

\* the loop of augment_images: for every row with verified boxes,
\* ImageAugmenter.create_augmented_dataset saves the image itself as
\* datasets/train/images/<filename> and its augmented versions as
\* datasets/train/images/<stem>_aug<idx><ext>
augment_create ==
  /\ augment.pc = "create"
  /\ LET sources == {f \in Images : has_verified(f) /\ readable(f)}
     IN datasets' =
          [datasets EXCEPT !.train =
             @ \cup {[name |-> f, aug |-> FALSE] : f \in sources}
               \cup {[name |-> f, aug |-> TRUE] :
                       f \in {g \in sources : augment.num_augmentations > 0}}]
  /\ augment' = NoAugment
  /\ UNCHANGED <<annotations, np_random, prepare, partition, ncalls, fewshot>>
  /\ UNCHANGED <<trainVars, predictVars, boxVars, scoreVars, registryVars>>

DataNext ==
  \/ \E images_data \in ImageLists : prepare_data(images_data)
  \/ prepare_copy
  \/ \E num_augmentations \in 0..MaxAugmentations : augment_images(num_augmentations)
  \/ augment_create
  \/ \E filename \in Images, label \in ImageLabels : save_annotations(filename, label)

DataSpec == DataInit /\ [][DataNext]_vars

\* ------------------------------------------------- few-shot dataset
\* FewShotModelTrainer.train_model_thread (few_shot_model.py) reads the
\* images of its job through a FewShotDataset.

\* FewShotModelTrainer.prepare_data(images_data): FewShotDataset.__init__
\* keeps every row, builds the class map from the verified labels and writes
\* it to model/few_shot_classes.json, whatever it holds
FewShotDataset(images_data) ==
  /\ fewshot.pc = "idle"
  /\ LET rows == [i \in 1..Len(images_data) |->
                    [filename |-> images_data[i],
                     label |-> annotations[images_data[i]]]]
         classes == {rows[i].label : i \in 1..Len(rows)} \ {NoLabel}
     IN fewshot' = [pc |-> "fit",
                    images_data |-> rows,
                    class_map |-> fresh_class_map(classes),
                    done |-> FALSE,
                    raised |-> FALSE]
  /\ UNCHANGED <<annotations, datasets, np_random, prepare, partition, augment, ncalls>>
  /\ UNCHANGED <<trainVars, predictVars, boxVars, scoreVars, registryVars>>

\* the first epoch of the training loop: the DataLoader calls
\* FewShotDataset.__getitem__ for every index of the dataset, and
\* Image.open(img_path) raises for a file that is missing or unreadable;
\* without any row avg_loss divides by len(train_loader) = 0.  The exception
\* leaves the loop and ends the job in the except block.
train_loader_epoch ==
  /\ fewshot.pc = "fit"
  /\ LET rows == fewshot.images_data
     IN fewshot' = [fewshot EXCEPT
                      !.pc = "idle",
                      !.done = TRUE,
                      !.raised = \/ rows = <<>>
                                 \/ \E i \in 1..Len(rows) : ~readable(rows[i].filename)]
  /\ UNCHANGED <<annotations, datasets, np_random, prepare, partition, augment, ncalls>>
  /\ UNCHANGED <<trainVars, predictVars, boxVars, scoreVars, registryVars>>

FewShotDataNext ==
  \/ \E images_data \in ImageLists : FewShotDataset(images_data)
  \/ train_loader_epoch
  \/ \E filename \in Images, label \in ImageLabels : save_annotations(filename, label)

FewShotDataSpec == DataInit /\ [][FewShotDataNext]_vars

\* ------------------------------------------------------------------ claims
\* the training threads of type m that have not reached the block under LOCK
\* that ends their job
Running(m) ==
  {j \in Jobs : /\ worker[j].type = m
                /\ worker[j].pc \in {"init", "prepare", "fit", "saving", "post",
                                     "copying", "final"}}

\* C1: start_training returns False and starts no thread whenever
\* TRAINING_IN_PROGRESS of that model type is true; of two calls on an idle
\* model type, the second being made before the job of the first has ended,
\* the first returns True and the second False.
C1_StartRejectedWhileTraining ==
  [][\A m \in ModelTypes :
       start_training(m) =>
         /\ TRAINING_IN_PROGRESS[m] => ret' = "False" /\ worker' = worker
         /\ Running(m) # {} => ret' = "False" /\ worker' = worker
         /\ ~TRAINING_IN_PROGRESS[m] =>
              ret' = "True" /\ Cardinality(Running(m)') = 1]_vars

\* a call was rejected while the thread of the accepted call had not even run
C1_Witness ==
  \E m \in ModelTypes :
    /\ ret = "False"
    /\ \E j \in Running(m) : worker[j].pc = "init"
    /\ \A k \in ModelTypes \ {m} : ~TRAINING_IN_PROGRESS[k]

\* C2: in every reachable state at most one training thread per model type
\* is preparing or fitting.
C2_OneWorkerPerType ==
  \A m \in ModelTypes : Cardinality(Running(m)) <= 1

\* a thread is in its fit while a second call on its type has been rejected
C2_Witness ==
  \E m \in ModelTypes :
    /\ ret = "False"
    /\ \E j \in Running(m) : worker[j].pc = "fit" /\ worker[j].epoch = 1
    /\ \A k \in ModelTypes \ {m} : ~TRAINING_IN_PROGRESS[k]

\* C3: every accepted start_training is eventually followed by a state with
\* training_in_progress = false, whatever the outcome of the class registry
\* update, the dataset preparation and the fit.
C3_TrainingEventuallyEnds ==
  \A m \in ModelTypes :
    TRAINING_IN_PROGRESS[m] ~> ~TRAINING_IN_PROGRESS[m]

\* C4: the status read right after reset() returns has is_available = false,
\* is_ready = false and training_in_progress = false.
C4_StatusAfterReset ==
  [][\A m \in ModelTypes :
       reset_clear_cache(m) =>
         /\ ~get_model_status(m)'.is_available
         /\ ~get_model_status(m)'.is_ready
         /\ ~get_model_status(m)'.training_in_progress]_vars

\* job j fails in this step: prepare_data returned False or a statement raised
JobFails(j) == prepare_failed(j) \/ train_exception(j)

\* C5: after a failed job training_in_progress is false, and is_available
\* and is_ready are what they were right before the start_training call of
\* the job (no reset request came in between).
C5_FailedJobKeepsStatus ==
  [][\A j \in Jobs :
       JobFails(j) /\ worker[j].undisturbed =>
         LET st == get_model_status(worker[j].type)' IN
         /\ ~st.training_in_progress
         /\ st.is_available = worker[j].pre.is_available
         /\ st.is_ready = worker[j].pre.is_ready]_vars

\* C6: is_ready becomes true only in the last step of a job whose artifact
\* was copied or saved to the canonical weight path.
C6_ReadyOnlyAfterCopy ==
  [][\A m \in ModelTypes :
       ~MODEL_READY[m] /\ MODEL_READY'[m] =>
         \E j \in Jobs :
           /\ worker[j].type = m
           /\ worker[j].pc \in {"final", "final2"}
           /\ worker'[j].pc = "done"
           /\ worker[j].copied]_vars

\* C7: a job that fails during fitting leaves the weight file the model
\* cache resolves as it was before the job started, for a job started with a
\* model on disk (no reset request came in between).
C7_FailedFitKeepsArtifact ==
  [][\A j \in Jobs :
       /\ train_exception(j)
       /\ worker[j].pc \in {"fit", "saving", "post", "copying"}
       /\ worker[j].undisturbed
       /\ worker[j].pre.artifact.exists
       => resolved_artifact(worker[j].type)' = worker[j].pre.artifact]_vars

\* C8 as stated: progress never decreases from one status read to the next.
C8_ProgressNeverDecreases ==
  [][\A m \in ModelTypes :
       get_model_status(m)'.progress >= get_model_status(m).progress]_vars

\* C8, amended: progress decreases only in the first block under LOCK of the
\* thread of a newly accepted job, which puts it to 0.0; within a job and
\* at its end, completed or failed, progress never decreases.
C8_ProgressDecreasesOnlyAtJobStart ==
  [][\A m \in ModelTypes :
       get_model_status(m)'.progress < get_model_status(m).progress =>
         /\ get_model_status(m)'.progress = 0
         /\ \E j \in Jobs : worker[j].type = m /\ train_begin(j)]_vars

\* the second job of a model type has made progress after the first one ended
C8_Witness ==
  \E m \in ModelTypes : \E j, k \in Jobs :
    /\ j < k
    /\ worker[j].type = m /\ worker[j].pc = "done"
    /\ worker[k].type = m /\ worker[k].pc \in {"fit", "saving", "post"}
    /\ TRAINING_PROGRESS[m] = NumEpochs

\* C9: _load_model_if_needed returns no model and leaves the cache unchanged
\* whenever its status check finds training_in_progress = true or
\* is_ready = false.
C9_NotReadyLeavesCache ==
  [][\A m \in ModelTypes :
       load_check(m) /\ (TRAINING_IN_PROGRESS[m] \/ ~MODEL_READY[m]) =>
         /\ loader'.pc = "idle"
         /\ loader'.ret = "NotReady"
         /\ cache' = cache]_vars

\* a load was refused while a job of its type was in its fit
C9_Witness ==
  /\ loader.pc = "idle"
  /\ loader.ret = "NotReady"
  /\ loader.type \in ModelTypes
  /\ TRAINING_IN_PROGRESS[loader.type]
  /\ \E j \in Jobs : worker[j].type = loader.type /\ worker[j].pc = "saving"

\* C10: _load_model_if_needed never reads a weight file while a training
\* thread of the same model type has that file open for writing.
C10_NoLoadDuringWrite ==
  ~ /\ loader.pc = "reading"
    /\ disk[loader.path].partial
    /\ \E j \in Jobs : /\ worker[j].type = loader.type
                       /\ worker[j].pc \in {"saving", "copying"}

\* C11: after a training job has completed with is_ready = true, a
\* _load_model_if_needed call made after that returns the model handle of
\* the weights that job produced, never a handle cached before the job ran.
C11_LoadReturnsJobModel ==
  [][\A m \in ModelTypes :
       /\ loader.type = m
       /\ loader.pc \in {"resolve", "reading"}
       /\ loader'.pc = "idle"
       /\ loader'.ret = "model"
       /\ loader.since # NoModel
       /\ produced[m] = loader.since
       => cache'[m].model = produced[m]]_vars

\* C12: the mapping predict_batch returns has exactly the requested filenames
\* as keys; when the model could not be resolved, every one of them maps to
\* the empty sequence.
C12_KeysAreRequestedFilenames ==
  request # <<>> =>
    /\ DOMAIN batch_predictions = Range(request.filenames)
    /\ ~request.loaded =>
         \A f \in Range(request.filenames) : batch_predictions[f] = <<>>

\* the model could not be resolved for a batch of two images that are there
\* and in which the network, once loaded, finds something
C12_Witness ==
  /\ request # <<>>
  /\ ~request.loaded
  /\ \E f, g \in Range(request.filenames) :
       /\ f # g
       /\ {f, g} \subseteq uploads \ corrupt
       /\ outputs[f].boxes # <<>> /\ outputs[g].boxes # <<>>
       /\ batch_predictions[f] = <<>> /\ batch_predictions[g] = <<>>

\* the batch without every occurrence of f
Without(filenames, f) == SelectSeq(filenames, LAMBDA g : g # f)

\* C13: with a resolved model, a filename whose image file is missing maps
\* to the empty sequence, and every other filename of the batch gets the
\* predictions it gets in the batch without the missing file.
C13_MissingFileSkipped ==
  request # <<>> /\ request.loaded =>
    \A f \in Range(request.filenames) \ uploads :
      /\ batch_predictions[f] = <<>>
      /\ \A g \in Range(request.filenames) \ {f} :
           batch_predictions[g] =
             predict_batch_result(request.type, Without(request.filenames, f),
                                  request.loaded, request.raises)[g]

\* a batch of a missing file between two occurrences of an image with
\* predictions
C13_Witness ==
  /\ request # <<>>
  /\ request.loaded /\ ~request.raises
  /\ Len(request.filenames) = 3
  /\ request.filenames[2] \notin uploads
  /\ request.filenames[1] \in uploads
  /\ request.filenames[3] = request.filenames[1]
  /\ batch_predictions[request.filenames[1]] # <<>>

\* C14: the normalized box of any raw corner box and image size has
\* 0 <= x, 0 <= y, x + width <= 1 and y + height <= 1.
C14_NormalizedBoxInUnitSquare ==
  prediction # <<>> =>
    /\ RLeq(Zero, prediction.x)
    /\ RLeq(Zero, prediction.y)
    /\ RLeq(RAdd(prediction.x, prediction.width), One)
    /\ RLeq(RAdd(prediction.y, prediction.height), One)

\* a box that lies to the right of the image and below it was converted
C14_Witness ==
  /\ prediction # <<>>
  /\ box.x1 > box.width /\ box.x2 > box.x1
  /\ box.y1 > box.height /\ box.y2 < box.y1
  /\ REq(prediction.x, <<999, 1000>>)

\* C15: the score is 1.0 when both prediction sequences are empty and 0.8
\* when exactly one of them is, whichever one.
C15_EmptySidesScore ==
  uncertainty # <<>> =>
    /\ yolo_preds = <<>> /\ few_shot_preds = <<>> => REq(uncertainty, One)
    /\ (yolo_preds = <<>>) # (few_shot_preds = <<>>) =>
         REq(uncertainty, <<8, 10>>)

\* the classifier alone is silent, about an image the detector is sure of
C15_Witness ==
  /\ uncertainty # <<>>
  /\ few_shot_preds = <<>>
  /\ Len(yolo_preds) = 2
  /\ \A i \in 1..2 : yolo_preds[i].confidence = 10

\* the label sets and the confidence sum of a prediction sequence
LabelsOf(preds) == {preds[i].label : i \in 1..Len(preds)}
ConfSum(preds) ==
  LET S[n \in 0..Len(preds)] ==
        IF n = 0 THEN 0 ELSE S[n - 1] + preds[n].confidence
  IN S[Len(preds)]
\* 0.6 * labelDisagreement + 0.1 * countDisagreement
AgreementPart(A, B) ==
  RAdd(RMul(<<6, 10>>,
            RSub(One, Frac(Cardinality(LabelsOf(A) \cap LabelsOf(B)),
                           Cardinality(LabelsOf(A) \cup LabelsOf(B))))),
       RMul(<<1, 10>>,
            IF Abs(Len(A) - Len(B)) >= 2 THEN <<2, 10>>
            ELSE Frac(Abs(Len(A) - Len(B)), 10)))
Clamp01(r) == IF RLess(r, Zero) THEN Zero ELSE IF RLess(One, r) THEN One ELSE r

\* C16 as stated: for non-empty A and B the score is clamp(0.6 ld + 0.3 cu +
\* 0.1 cd, 0, 1) with cu = 1 - the average confidence of all predictions of
\* both sequences taken together.
C16_ScoreWithPooledConfidence ==
  uncertainty # <<>> /\ yolo_preds # <<>> /\ few_shot_preds # <<>> =>
    REq(uncertainty,
        Clamp01(RAdd(AgreementPart(yolo_preds, few_shot_preds),
                     RMul(<<3, 10>>,
                          RSub(One,
                               Frac(ConfSum(yolo_preds) + ConfSum(few_shot_preds),
                                    10 * (Len(yolo_preds) + Len(few_shot_preds))))))))

\* C16, amended: cu = 1 - the mean of the two sequences' own average
\* confidences.
C16_ScoreWithMeanOfAverages ==
  uncertainty # <<>> /\ yolo_preds # <<>> /\ few_shot_preds # <<>> =>
    REq(uncertainty,
        Clamp01(RAdd(AgreementPart(yolo_preds, few_shot_preds),
                     RMul(<<3, 10>>,
                          RSub(One,
                               Frac(ConfSum(yolo_preds) * Len(few_shot_preds)
                                      + ConfSum(few_shot_preds) * Len(yolo_preds),
                                    20 * Len(yolo_preds) * Len(few_shot_preds)))))))

\* one prediction against two, of other confidences and of one more label
C16_Witness ==
  /\ uncertainty # <<>>
  /\ Len(yolo_preds) = 1 /\ Len(few_shot_preds) = 2
  /\ yolo_preds[1].confidence = 10
  /\ few_shot_preds[1].confidence = 7 /\ few_shot_preds[2].confidence = 0
  /\ LabelsOf(few_shot_preds) = Labels
  /\ REq(uncertainty, <<4075, 10000>>)

\* C17 as stated: the score of a non-empty sequence against itself is at
\* most 0.1, whatever its labels and confidences.
C17_SelfScoreAtMostTenth ==
  uncertainty # <<>> /\ yolo_preds # <<>> /\ few_shot_preds = yolo_preds =>
    RLeq(uncertainty, <<1, 10>>)

\* C17, amended: the score of a non-empty sequence A against itself is
\* 0.3 * (1 - the average confidence of A): at most 0.3, and at most 0.1
\* when that average is at least 0.7.
C17_SelfScoreIsConfidencePart ==
  uncertainty # <<>> /\ yolo_preds # <<>> /\ few_shot_preds = yolo_preds =>
    /\ REq(uncertainty,
           RMul(<<3, 10>>,
                RSub(One, Frac(ConfSum(yolo_preds), 10 * Len(yolo_preds)))))
    /\ RLeq(uncertainty, <<3, 10>>)
    /\ RLeq(<<7, 10>>, Frac(ConfSum(yolo_preds), 10 * Len(yolo_preds))) =>
         RLeq(uncertainty, <<1, 10>>)

\* a sequence of two labels, of average confidence 0.85, against itself
C17_Witness ==
  /\ uncertainty # <<>>
  /\ Len(yolo_preds) = 2 /\ few_shot_preds = yolo_preds
  /\ yolo_preds[1].label # yolo_preds[2].label
  /\ ConfSum(yolo_preds) = 17
  /\ REq(uncertainty, <<45, 1000>>)

\* the mapping a single update_class_mapping(L) writes on a fresh registry
FreshMapping(L) == update_class_mapping(<<>>, sorted(L))

\* C18 as stated: for L1 a subset of L2, update_class_mapping(L1) and then
\* update_class_mapping(L2), starting from no mapping, give every label of L1
\* the ID that a single update_class_mapping(L2) on a fresh registry gives it.
C18_SameIdsAsDirectUpdate ==
  Len(updates) = 2 /\ updates[1] \subseteq updates[2] =>
    \A label \in updates[1] :
      classes_json[label] = FreshMapping(updates[2])[label]

\* C18, amended: every label of L1 keeps the ID that update_class_mapping(L1)
\* gave it; that is the ID of a single update_class_mapping(L2) on a fresh
\* registry when no label of L2 outside L1 sorts before a label of L1.
C18_IdsOfFirstUpdateKept ==
  Len(updates) = 2 /\ updates[1] \subseteq updates[2] =>
    /\ \A label \in updates[1] :
         classes_json[label] = FreshMapping(updates[1])[label]
    /\ (\A new \in updates[2] \ updates[1] : \A old \in updates[1] : old < new) =>
         \A label \in updates[1] :
           classes_json[label] = FreshMapping(updates[2])[label]

\* the second update brought a label that sorts before the one of the first
C18_Witness ==
  /\ Len(updates) = 2
  /\ updates[1] = {2}
  /\ updates[2] = {1, 2, 3}
  /\ classes_json = (1 :> 1) @@ (2 :> 0) @@ (3 :> 2)

\* C19: a prepare_data call that gets the input sequence of the call before
\* it, with the same files in uploads/, places the same filenames in the
\* training partition and the same filenames in the validation partition.
C19_SamePartitionForSameInput ==
  [][/\ prepare.pc = "copy"
     /\ prepare'.pc = "idle"
     /\ partition.done
     /\ partition.images_data = prepare.images_data
     => /\ partition'.train = partition.train
        /\ partition'.val = partition.val]_vars

\* a second call with the input of the first has placed images in both
\* partitions
C19_Witness ==
  /\ partition.repeated
  /\ partition.train # {}
  /\ partition.val # {}

\* C20: once prepare_data has completed, no file with _aug in its name in
\* the dataset directories is made from an image that prepare_data placed in
\* the validation partition.
C20_NoAugmentedValidationImage ==
  partition.done /\ prepare.pc = "idle"
    => \A file \in datasets.train \cup datasets.val :
         is_aug(file) => file.name \notin partition.val

\* C21: prepare_data reports failure only if no image was written to the
\* training partition, and reports success whenever one was, whether or not
\* a validation image was written.
C21_FailureOnlyWithoutTrainingImage ==
  partition.done => (partition.ret <=> partition.train # {})

\* the other model type
Other(m) == IF m = "yolo" THEN "few_shot" ELSE "yolo"

\* a step of start_training, of a training thread or of reset of type m
StepOfType(m) ==
  \/ start_training(m)
  \/ \E j \in Jobs : worker[j].type = m /\ train_model_thread(j)
  \/ reset(m)
  \/ reset_clear_cache(m)

\* C22: start_training, the training thread and reset of one model type
\* leave training_in_progress, progress, is_ready and the cache of the other
\* type as they are, and start_training of a type that is not training is
\* accepted while the other type is training.
C22_TypesAreIndependent ==
  [][\A m \in ModelTypes :
       /\ StepOfType(m) =>
            /\ TRAINING_IN_PROGRESS'[Other(m)] = TRAINING_IN_PROGRESS[Other(m)]
            /\ TRAINING_PROGRESS'[Other(m)] = TRAINING_PROGRESS[Other(m)]
            /\ MODEL_READY'[Other(m)] = MODEL_READY[Other(m)]
            /\ cache'[Other(m)] = cache[Other(m)]
       /\ start_training(m) /\ TRAINING_IN_PROGRESS[Other(m)]
            /\ ~TRAINING_IN_PROGRESS[m]
            => ret' = "True" /\ TRAINING_IN_PROGRESS'[m]]_vars

\* both types train at once, the second call having been accepted
C22_Witness ==
  /\ \A m \in ModelTypes : TRAINING_IN_PROGRESS[m]
  /\ \A m \in ModelTypes : \E j \in Jobs : worker[j].type = m
  /\ ret = "True"

C24_NoHandleFromBeforeReset ==
  [][\A m \in ModelTypes :
       /\ reset_clear_cache(m) => cache'[m] = NoCache
       /\ loader.type = m /\ loader.reset /\ loader'.pc = "idle"
            => loader'.ret # "model" /\ cache'[m] = NoCache]_vars

\* C25: in every snapshot of get_model_status, is_ready implies
\* is_available.
C25_ReadyImpliesAvailable ==
  \A m \in ModelTypes :
    get_model_status(m).is_ready => get_model_status(m).is_available

\* a detector job has ended and set is_ready with
\* model/training/weights/best.pt removed by /reset_annotator
C25_Witness ==
  /\ MODEL_READY["yolo"]
  /\ \E j \in Jobs : worker[j].type = "yolo" /\ worker[j].pc = "done"
  /\ ~exists(TRAIN_BEST)
  /\ rpc = "idle"

\* C26: the canonical weight path of each model type is absent or holds a
\* complete artifact in every state; no step of a training job leaves a
\* partly written file there.
C26_CanonicalPathNeverPartial ==
  \A m \in ModelTypes :
    disk[MODEL_PATH(m)].exists => ~disk[MODEL_PATH(m)].partial

\* p is the first candidate of the priority list that exists with at least
\* the minimum size
FirstBigCandidate(p) ==
  LET ps == model_paths(TRUE) IN
  \E i \in 1..Len(ps) :
    /\ ps[i] = p
    /\ disk[p].exists /\ disk[p].big
    /\ \A k \in 1..(i - 1) : ~(disk[ps[k]].exists /\ disk[ps[k]].big)

\* C27: past the status check, YOLOModel._load_model_if_needed selects the
\* first candidate that exists and has the minimum size, and gives up only
\* if there is none; a file below the minimum size never becomes the
\* cached source path.
C27_FirstCandidateOfMinimumSize ==
  [][/\ loader.type = "yolo" /\ loader.pc = "resolve" /\ loader'.pc # "resolve"
        => /\ loader'.pc = "reading" => FirstBigCandidate(loader'.path)
           /\ loader'.ret = "model" => FirstBigCandidate(cache["yolo"].path)
           /\ loader'.ret = "NotReady" => \A q \in Paths : ~FirstBigCandidate(q)
     /\ cache'["yolo"] # cache["yolo"] /\ cache'["yolo"] # NoCache
        => disk[cache'["yolo"].path].big]_vars

\* the cache holds model/last.pt although model/best.pt, earlier in the
\* list, exists: it is below the minimum size
C27_Witness ==
  /\ cache["yolo"].path = YOLO_MODEL_PATH
  /\ cache["yolo"].model # NoModel
  /\ disk[MODEL_BEST].exists
  /\ ~disk[MODEL_BEST].big

\* C28: when the load of the selected weight file fails on a corrupt file,
\* YOLOModel._load_model_if_needed goes on to the next candidate; it
\* returns NotReady only if no other candidate is a complete file of the
\* minimum size.
C28_FallbackToNextCandidate ==
  [][/\ loader.type = "yolo"
     /\ loader.pc = "reading"
     /\ disk[loader.path].exists /\ disk[loader.path].partial
     /\ loader'.pc = "idle"
     /\ loader'.ret = "NotReady"
     => \A i \in 1..Len(model_paths(TRUE)) :
          LET q == model_paths(TRUE)[i] IN
          q # loader.path => ~(disk[q].exists /\ disk[q].big /\ ~disk[q].partial)]_vars

\* C29: update_class_mapping keeps the ID of every label that is both in
\* the mapping model/classes.json held before the call and in the new
\* label set.
C29_CommonLabelsKeepTheirId ==
  [][Len(updates') = Len(updates) + 1
     => \A label \in DOMAIN classes_json \cap updates'[Len(updates')] :
          /\ label \in DOMAIN classes_json'
          /\ classes_json'[label] = classes_json[label]]_vars

\* label 2 got ID 0 alone; the update with {1, 2} left it at 0, where
\* numbering the sorted labels anew gives it 1
C29_Witness ==
  /\ Len(updates) = 2
  /\ updates[1] = {2}
  /\ updates[2] = {1, 2}
  /\ classes_json[2] = 0
  /\ classes_json[1] = 1

\* C30: update_class_mapping removes no entry: every label-to-ID pair of
\* model/classes.json before the call is in it after the call, also for
\* a label that is not in the new label set.
C30_NoEntryRemoved ==
  [][Len(updates') = Len(updates) + 1
     => \A label \in DOMAIN classes_json :
          /\ label \in DOMAIN classes_json'
          /\ classes_json'[label] = classes_json[label]]_vars

\* the IDs of a mapping
Ids(class_map) == {class_map[l] : l \in DOMAIN class_map}

\* C31: in update_class_mapping the labels that the existing mapping does
\* not have get the IDs (largest ID of the existing mapping) + 1, + 2, ...
\* in sorted order (0, 1, ... when there is no existing mapping), so that
\* none of them gets an ID that a label of the existing mapping held.
C31_NewLabelsAfterLargestId ==
  [][Len(updates') = Len(updates) + 1 /\ updates'[Len(updates')] # {}
     => LET new == sorted(updates'[Len(updates')] \ DOMAIN classes_json)
            first == IF DOMAIN classes_json = {} THEN 0
                     ELSE MaxId(classes_json) + 1
        IN \A i \in 1..Len(new) :
             /\ classes_json'[new[i]] = first + i - 1
             /\ classes_json'[new[i]] \notin Ids(classes_json)]_vars

\* C32: over update_class_mapping and prepare_data with a growing set of
\* labels, prepare_data receiving every annotated row, the ID that
\* model/classes.json gives a label does not change.
C32_AssignedIdNeverChanges ==
  [][\/ augment.pc = "idle" /\ augment'.pc = "create"
     \/ /\ prepare.pc = "idle" /\ prepare'.pc = "copy"
        /\ \A f \in Images :
             has_verified(f) =>
               \E i \in 1..Len(prepare'.images_data) :
                 prepare'.images_data[i].filename = f
     => \A label \in DOMAIN classes_json \cap DOMAIN classes_json' :
          classes_json'[label] = classes_json[label]]_vars

C34_EmptyLabelSetKeepsClassMap ==
  [][/\ ncalls' = ncalls + 1
     /\ augment' = augment
     /\ prepare.pc = "idle"
     /\ prepare'.pc = "idle"
     => classes_json' = classes_json]_vars

\* the rows of a call that have a verified box, in the order of the call
VerifiedRow(row) == row.label # NoLabel

UsableRows ==
  {i \in 1..Len(fewshot.images_data) :
     /\ fewshot.images_data[i].label # NoLabel
     /\ readable(fewshot.images_data[i].filename)}

\* C36: a training job skips an image whose source file is missing and goes
\* on with the others: when the few-shot job has run its loop over a dataset
\* with two usable images, it has not ended by an exception.
C36_MissingFileSkipped ==
  fewshot.done /\ Cardinality(UsableRows) >= 2 => ~fewshot.raised

\* C37: whenever a dataset manifest is written the write succeeds and agrees
\* with the class map used: after every run of ensure_class_consistency over
\* a label set that is not empty, nc of datasets/dataset.yaml is the number
\* of labels of model/classes.json and names holds every label at the index
\* that is its ID.
C37_ManifestMatchesClassMap ==
  [][Len(updates') = Len(updates) + 1 /\ updates'[Len(updates')] # {}
     => /\ dataset_yaml'.nc = Cardinality(DOMAIN classes_json')
        /\ \A label \in DOMAIN classes_json' :
             /\ classes_json'[label] + 1 \in DOMAIN dataset_yaml'.names
             /\ dataset_yaml'.names[classes_json'[label] + 1] = label]_vars

\* C38: in every reachable state and for each model type, is_ready implies
\* that no training is in progress, whatever the interleaving of a finishing
\* training thread with a new start_training call.
C38_ReadyImpliesNotTraining ==
  \A m \in ModelTypes : MODEL_READY[m] => ~TRAINING_IN_PROGRESS[m]

\* the positions of the reset_annotator request at which reset() of type m
\* has been called
AfterReset(m) ==
  IF m = "yolo" THEN {"clear_yolo", "reset_few_shot", "clear_few_shot"}
  ELSE {"clear_few_shot"}

\* C39: a reset() called while a training job of the type is in progress is
\* not undone by that job: when a thread that was training during the reset
\* reaches its completion block, is_ready and is_available of its type are
\* false afterwards.
C39_CompletionKeepsReset ==
  [][\A j \in Jobs :
       /\ worker[j].pc = "final"
       /\ ~worker[j].undisturbed
       /\ rpc \in AfterReset(worker[j].type)
       /\ worker'[j].pc \in {"final2", "done"}
       => /\ ~MODEL_READY'[worker[j].type]
          /\ ~MODEL_AVAILABLE'[worker[j].type]]_vars

\* C40: calculate_uncertainty_score is symmetric in its two arguments: the
\* score computed for the predictions of an image is the score of the same
\* two sequences with the detector's and the few-shot model's exchanged.
C40_ScoreSymmetric ==
  uncertainty # <<>> =>
    REq(uncertainty, calculate_uncertainty_score(few_shot_preds, yolo_preds))

\* a score computed for two sequences of different lengths, labels and
\* confidences
C40_Witness ==
  /\ uncertainty # <<>>
  /\ Len(yolo_preds) = 1
  /\ Len(few_shot_preds) = 2
  /\ \E i \in 1..2 : few_shot_preds[i].label # yolo_preds[1].label
  /\ sum_confidence(few_shot_preds) # 2 * sum_confidence(yolo_preds)

====
